---------------------------- MODULE Spec2Model ----------------------------
(***************************************************************************)
(* A model of singularity-survivor: the top-level Game (src/src/main.rs),  *)
(* the menu screens (src/src/states/menu_state.rs) and the per-frame       *)
(* simulation MainState::update (src/src/states/main_state.rs).            *)
(*                                                                         *)
(* Fixed point.  The program computes in f32; the model computes in        *)
(* integers:                                                               *)
(*   lengths and velocities   1/30 pixel    (1 px = 30)                    *)
(*   game time                millisecond   (1 s  = 1000)                  *)
(*   reload times             microsecond   (1 s  = 1000000)               *)
(*   shields, production and hostile progress   1/1000000 of a unit        *)
(*   rates per second         1/1000000 of a unit per second               *)
(*   angles                   degree                                       *)
(*   sines and cosines        1/1000                                       *)
(* A product or quotient is truncated toward zero.  Random draws (rand::   *)
(* gen_range) and the environment's answers (keys, frame time, window      *)
(* size) are chosen from small sets.                                       *)
(***************************************************************************)
EXTENDS Integers, Sequences, FiniteSets, TLC

VARIABLES
    game,    \* Game.main: which GameState is installed
    main,    \* the MainState while game = "Playing"
    screen,  \* what screen_width() / screen_height() answer, in pixels
    budget,  \* simulation steps the session may still take (bounds the run)
    obs      \* what the last frame did (observation only, never read back)

vars == <<game, main, screen, budget, obs>>

---------------------------------------------------------------------------
(* Bounds of the model *)

\* simulation steps explored per session begun at the menu
MaxTicks == 4

\* simulation steps explored from the late session
MaxLateTicks == 3

\* simulation steps explored from the long session
MaxDeepTicks == 3

\* simulation steps explored from a pending prompt
MaxPoolTicks == 2

MaxMeleeTicks == 3

MaxDuelTicks == 1

MaxRepeats == 1

\* asteroids MainState::new places (the program places ASTEROID_DENSITY*5*5)
NumInitAsteroids == 2

---------------------------------------------------------------------------
(* Program constants, in the model's units *)

SHIP_HEIGHT == 750
ROCKET_SIZE == 240
BULLET_LIFETIME == 1500
ROCKET_LIFETIME == 4000
ASTEROID_DENSITY == 4
SHIP_ROTATION_SPEED == 4

\* one whole unit of shield / production progress / hostile progress
One == 1000000

Px(n) == 30 * n

---------------------------------------------------------------------------
(* Arithmetic *)

\* The element of a one-element set.  TheOne({e(x) : x \in {v}}) computes v
\* once and then e from its value, as a let-binding of the program does.
TheOne(S) == CHOOSE x \in S : TRUE

Abs(a) == IF a < 0 THEN -a ELSE a

Min(a, b) == IF a < b THEN a ELSE b

Max(a, b) == IF a > b THEN a ELSE b

\* division truncating toward zero
Div(a, b) == IF a >= 0 THEN a \div b ELSE -((-a) \div b)

RECURSIVE SqrtIter(_, _, _)
SqrtIter(n, lo, hi) ==
    IF lo >= hi THEN lo
    ELSE LET mid == (lo + hi + 1) \div 2
         IN  IF mid * mid <= n THEN SqrtIter(n, mid, hi)
                               ELSE SqrtIter(n, lo, mid - 1)

\* the integer square root of n, 0 <= n < 2^31
ISqrt(n) == SqrtIter(n, 0, 46340)

---------------------------------------------------------------------------
(* Vec2 *)

VAdd(a, b) == <<a[1] + b[1], a[2] + b[2]>>

VSub(a, b) == <<a[1] - b[1], a[2] - b[2]>>

VNeg(a) == <<-a[1], -a[2]>>

\* a * num / den
VScale(a, num, den) == <<Div(a[1] * num, den), Div(a[2] * num, den)>>

Dot(a, b) == a[1] * b[1] + a[2] * b[2]

SafeVec(a) == Abs(a[1]) <= 32767 /\ Abs(a[2]) <= 32767

RECURSIVE Length(_)
\* Vec2::length; a vector too long to square is halved first
Length(a) ==
    IF SafeVec(a) THEN ISqrt(Dot(a, a))
    ELSE 2 * Length(<<Div(a[1], 2), Div(a[2], 2)>>)

RECURSIVE LenLess(_, _)
\* Vec2::length() < r, exactly while the squares fit
LenLess(a, r) ==
    IF r <= 0 \/ Abs(a[1]) >= r \/ Abs(a[2]) >= r THEN FALSE
    ELSE IF r <= 32767 THEN Dot(a, a) < r * r
    ELSE LenLess(<<Div(a[1], 2), Div(a[2], 2)>>, r \div 2)

\* Vec2::length() > r
LenMore(a, r) ==
    IF r < 0 THEN TRUE
    ELSE IF Abs(a[1]) > r \/ Abs(a[2]) > r THEN TRUE
    ELSE IF r <= 32767 THEN Dot(a, a) > r * r
    ELSE Length(a) > r

RECURSIVE Unit(_)
\* Vec2::normalize(), in 1/1000.  The program's normalize of the zero
\* vector is NaN; the model's draws never produce it and the model answers
\* the zero vector.
Unit(a) ==
    IF a = <<0, 0>> THEN <<0, 0>>
    ELSE IF Abs(a[1]) > 1000 \/ Abs(a[2]) > 1000
         THEN Unit(<<Div(a[1], 2), Div(a[2], 2)>>)
         ELSE TheOne({<<Div(a[1] * 32000, l32), Div(a[2] * 32000, l32)>> :
                         l32 \in {ISqrt(Dot(a, a) * 1024)}})   \* 32 * |a|

\* Vec2::normalize() * k
NormTo(a, k) == TheOne({VScale(u, k, 1000) : u \in {Unit(a)}})

---------------------------------------------------------------------------
(* Angles *)

\* 1000 * sin(d degrees), d = 0 .. 90, at index d + 1
SinTable ==
    <<
       0, 17, 35, 52, 70, 87, 105, 122, 139, 156, 174, 191, 208,
       225, 242, 259, 276, 292, 309, 326, 342, 358, 375, 391, 407, 423,
       438, 454, 469, 485, 500, 515, 530, 545, 559, 574, 588, 602, 616,
       629, 643, 656, 669, 682, 695, 707, 719, 731, 743, 755, 766, 777,
       788, 799, 809, 819, 829, 839, 848, 857, 866, 875, 883, 891, 899,
       906, 914, 921, 927, 934, 940, 946, 951, 956, 961, 966, 970, 974,
       978, 982, 985, 988, 990, 993, 995, 996, 998, 999, 999, 1000, 1000
    >>

Mod360(d) == ((d % 360) + 360) % 360

\* f32::sin of an angle given in degrees, in 1/1000
Sin(d) ==
    LET m == Mod360(d)
    IN  IF m <= 90 THEN SinTable[m + 1]
        ELSE IF m <= 180 THEN SinTable[180 - m + 1]
        ELSE IF m <= 270 THEN -SinTable[m - 180 + 1]
        ELSE -SinTable[360 - m + 1]

\* f32::cos of an angle given in degrees, in 1/1000
Cos(d) == Sin(d + 90)

\* vec_from_rot(rot.to_radians()), in 1/1000
vec_from_rot(rot) == <<Sin(rot), -Cos(rot)>>

\* Vec2::from_angle(deg.to_radians()), in 1/1000
from_angle(deg) == <<Cos(deg), Sin(deg)>>

RECURSIVE ACosIter(_, _, _)
\* the largest angle of lo .. hi whose cosine is at least c1000 (the cosine
\* falls from 0 to 180 degrees)
ACosIter(c1000, lo, hi) ==
    IF lo >= hi THEN lo
    ELSE LET mid == (lo + hi + 1) \div 2
         IN  IF Cos(mid) >= c1000 THEN ACosIter(c1000, mid, hi)
                                  ELSE ACosIter(c1000, lo, mid - 1)

\* f32::acos, in degrees: the angle in 0 .. 180 whose cosine is nearest below
ACos(c1000) == ACosIter(c1000, 0, 180)

\* Vec2::angle_between(a, b).to_degrees(): the angle from a to b, signed by
\* the side b lies on (the sign of the perpendicular dot product)
angle_between(a, b) ==
    TheOne({IF ua[1] * ub[2] - ua[2] * ub[1] < 0
            THEN -ACos(Min(1000, Max(-1000, Div(Dot(ua, ub), 1000))))
            ELSE ACos(Min(1000, Max(-1000, Div(Dot(ua, ub), 1000)))) :
               ua \in {Unit(a)}, ub \in {Unit(b)}})

---------------------------------------------------------------------------
(* The environment's answers and the random draws, each from a small set *)

\* A frame's input: the keys held (is_key_down), those that went down in
\* this frame (is_key_pressed) and get_frame_time() in milliseconds.  The
\* program asks is_key_pressed only for Enter, Up, Down and P.
Held == {{}, {"Enter"}, {"Space"}, {"LeftAlt"}}

Pressed == {{"Enter"}, {"Up"}, {"Down"}, {"P"}, {"Enter", "Space"}}

FrameTimes == {0, 600}

Inputs ==
    {[down |-> d, pressed |-> {}, frame_t |-> f] :
        d \in Held, f \in FrameTimes}
    \cup
    {[down |-> d, pressed |-> d \ {"Space"}, frame_t |-> f] :
        d \in Pressed, f \in FrameTimes}

\* the window, in pixels: <<screen_width(), screen_height()>>
BigScreen == <<3600, 3600>>

SmallScreen == <<40, 40>>

\* MainState::new: the signed offset from the screen centre, in pixels
\* (rand_signum() * gen_range(SHIP_HEIGHT * 10., 2.5 * screen_width()), ...)
InitOffsetDraws == {<<250, -280>>, <<250, -270>>}

\* Asteroid::new: vel components from gen_range(-1., 1.), in 1/30 px
AsteroidVelDraws == {<<0, 0>>}

\* Asteroid::new: sides from gen_range(3, 8)
SidesDraws == {3, 4}

\* fragments: gen_range(1., 3.) px per frame
FragmentSpeedDraws == {30, 60}

\* rocket launch: gen_range(1.0, 1.4) * PI / 2 in degrees, gen_range(0.7, 1.2)
RocketAngleDraws == {90}

RocketSpeedDraws == {21}

\* rand::gen_range(0, n) for LevelUp::new
IndexDraws(n) == {0, n - 1}

\* bearings in degrees drawn by gen_range(0.0_f32, 360.): where a hostile
\* asteroid and where a black hole appears
BearingDraws == {0, 180}

HoleBearingDraws == {0}

\* a new black hole's size: gen_range(5., 20.) px
HoleSizeDraws == {150, 570}

---------------------------------------------------------------------------
(* The data of main_state.rs *)

Asteroid(pos, vel, size, sides) ==
    [pos |-> pos, vel |-> vel, size |-> size, sides |-> sides,
     collided |-> FALSE]

\* screen_size.length(), in 1/30 px
ScreenDiag(scr) == Length(<<Px(scr[1]), Px(scr[2])>>)

\* Asteroid::new(pos, ..): the draws it makes
AsteroidNew(pos, scr) ==
    {Asteroid(pos, v, Div(Px(Min(scr[1], scr[2])), 10), n) :
        v \in AsteroidVelDraws, n \in SidesDraws}

UpgradeNames ==
    <<"brakes", "missiles", "rocket_reload", "bullet_reload",
      "production", "shields">>

\* a pool that lacks the brakes
UpgradesWithoutBrakes == Tail(UpgradeNames)

\* make_upgrades(): the pool in its order; next_rockets is the Cell the
\* missile upgrade's closures share
make_upgrades == UpgradeNames

NoLevelUp == [some |-> FALSE, selected |-> 0, upgrade_choices |-> <<>>]

\* a remove that takes the element but leaves it in the vector
RemoveAtKeeping(seq, i) == seq

\* Vec::remove(i), i counted from 1
RemoveAt(seq, i) == SubSeq(seq, 1, i - 1) \o SubSeq(seq, i + 1, Len(seq))

RECURSIVE DrawChoices(_, _, _)
\* the loop of LevelUp::new: every sequence of choices the draws can give
DrawChoices(n, available, chosen) ==
    IF n = 0 \/ available = <<>> THEN {chosen}
    ELSE UNION {DrawChoices(n - 1, RemoveAt(available, i + 1),
                            Append(chosen, available[i + 1])) :
                    i \in IndexDraws(Len(available))}

LevelUpNew(choices, available_upgrades) ==
    {[some |-> TRUE, selected |-> 0, upgrade_choices |-> c] :
        c \in DrawChoices(choices, available_upgrades, <<>>)}

RECURSIVE InitialAsteroids(_, _, _)
\* the loop of MainState::new that places the asteroids
InitialAsteroids(n, screen_center, scr) ==
    IF n = 0 THEN {<<>>}
    ELSE UNION {{<<a>> \o rest :
                    a \in AsteroidNew(VAdd(screen_center,
                                           <<Px(off[1]), Px(off[2])>>), scr)} :
                off \in InitOffsetDraws,
                rest \in InitialAsteroids(n - 1, screen_center, scr)}

MainStateWith(ship_pos, asteroids) ==
    [game_t |-> 0,
     paused |-> FALSE,
     last_asteroid_generate_pos |-> ship_pos,
     invulnerable_until |-> 0,
     colliding |-> FALSE,
     ship |-> [pos |-> ship_pos, rot |-> 0, vel |-> <<0, 0>>],
     bullets |-> <<>>,
     rockets |-> <<>>,
     last_bullet_shot |-> 0,
     last_rocket_shot |-> 0,
     rocket_side |-> "Right",
     asteroids |-> asteroids,
     black_holes |-> <<>>,
     level_up |-> NoLevelUp,
     level |-> 1,
     xp |-> 0,
     next_level_xp |-> 3,
     hostile_asteroids_per_second |-> 66666,
     new_hostile_asteroids |-> 0,
     max_hostile_asteroid_speed |-> 1000,
     available_upgrades |-> make_upgrades,
     next_rockets |-> 5,
     shields |-> 0,
     shield_regeneration_per_sec |-> 0,
     rocket_stockpile |-> 2,
     rocket_production_progress |-> 0,
     rocket_production_per_sec |-> 0,
     has_brakes |-> FALSE,
     bullet_reload_time |-> 500000,
     rocket_reload_time |-> 1000000]

\* MainState::new(): every session it can construct
MainStateNew(scr) ==
    LET center == <<Div(Px(scr[1]), 2), Div(Px(scr[2]), 2)>>
    IN  {MainStateWith(center, as) :
            as \in InitialAsteroids(NumInitAsteroids, center, scr)}

\* what main holds while a menu is shown: no MainState exists
NoMain == [none |-> TRUE]

---------------------------------------------------------------------------
(* make_upgrades: the effect closures.  Each answers the state it leaves    *)
(* and whether the upgrade stays in the pool.                               *)

\* brakes that stay in the pool
EffectBrakesKept(s) ==
    [s |-> [s EXCEPT !.has_brakes = TRUE], keep |-> TRUE]

EffectBrakes(s) ==
    [s |-> [s EXCEPT !.has_brakes = TRUE], keep |-> FALSE]

\* a missiles upgrade that can be taken once
EffectMissilesOnce(s) ==
    [s |-> [s EXCEPT !.rocket_stockpile = @ + s.next_rockets,
                     !.next_rockets = @ + 5],
     keep |-> FALSE]

EffectMissiles(s) ==
    [s |-> [s EXCEPT !.rocket_stockpile = @ + s.next_rockets,
                     !.next_rockets = @ + 5],
     keep |-> TRUE]

EffectRocketReload(s) ==
    LET t == Div(s.rocket_reload_time * 4, 5)
    IN  [s |-> [s EXCEPT !.rocket_reload_time = t], keep |-> t > 50000]

EffectBulletReload(s) ==
    LET t == Div(s.bullet_reload_time * 4, 5)
    IN  [s |-> [s EXCEPT !.bullet_reload_time = t], keep |-> t > 50000]

EffectProduction(s) ==
    [s |-> [s EXCEPT !.rocket_production_per_sec = @ + 300000],
     keep |-> TRUE]

EffectShields(s) ==
    [s |-> IF s.shield_regeneration_per_sec = 0
           THEN [s EXCEPT !.shields = One,
                          !.shield_regeneration_per_sec = 1666]
           ELSE [s EXCEPT !.shield_regeneration_per_sec = @ + 8333],
     keep |-> TRUE]

\* (upgrade.effect)(self)
Effect(s, upgrade) ==
    CASE upgrade = "brakes"        -> EffectBrakes(s)
      [] upgrade = "missiles"      -> EffectMissiles(s)
      [] upgrade = "rocket_reload" -> EffectRocketReload(s)
      [] upgrade = "bullet_reload" -> EffectBulletReload(s)
      [] upgrade = "production"    -> EffectProduction(s)
      [] upgrade = "shields"       -> EffectShields(s)

---------------------------------------------------------------------------
(* MainState::update, lines 408-433: the prompt and the pause key *)

\* which cursor key the frame answers as pressed; Down is asked first
CursorKey(in) ==
    IF "Down" \in in.pressed THEN "Down"
    ELSE IF "Up" \in in.pressed THEN "Up" ELSE "none"

\* a cursor that stops at the first and the last choice
CursorStopped(selected, n, in) ==
    CASE CursorKey(in) = "Down" -> Min(selected + 1, n - 1)
      [] CursorKey(in) = "Up"   -> Max(selected - 1, 0)
      [] OTHER                  -> selected

\* lines 417-422: the cursor after the frame, n > 0 choices offered
CursorMoved(selected, n, in) ==
    (CASE CursorKey(in) = "Down" -> selected + 1
       [] CursorKey(in) = "Up"   -> n + selected - 1
       [] OTHER                  -> selected) % n

\* A frame with a prompt pending.  how: "confirm" (Enter: the upgrade is
\* applied and update goes on), "nav" (update returns), "panic" (an index
\* out of range or a remainder by zero aborts the program).
PromptStep(s, in) ==
    LET lu == s.level_up
        n  == Len(lu.upgrade_choices)
    IN  IF "Enter" \in in.pressed
        THEN IF lu.selected >= n
             THEN [s |-> s, how |-> "panic"]
             ELSE LET upgrade == lu.upgrade_choices[lu.selected + 1]
                      e == Effect([s EXCEPT !.level_up = NoLevelUp], upgrade)
                  IN  [s |-> IF e.keep THEN e.s
                             ELSE [e.s EXCEPT !.available_upgrades =
                                       SelectSeq(@, LAMBDA u : u # upgrade)],
                       how |-> "confirm"]
        ELSE IF n = 0
             THEN [s |-> s, how |-> "panic"]
             ELSE [s |-> [s EXCEPT !.level_up.selected =
                                      CursorMoved(lu.selected, n, in)],
                   how |-> "nav"]

\* a pause key that pauses and never resumes
PauseOnly(s, in) == IF "P" \in in.pressed THEN [s EXCEPT !.paused = TRUE] ELSE s

\* if is_key_pressed(KeyCode::P) { self.paused = !self.paused }
PauseStep(s, in) ==
    IF "P" \in in.pressed THEN [s EXCEPT !.paused = ~@] ELSE s

---------------------------------------------------------------------------
(* MainState::update, lines 435-561: input, production and motion *)

\* elapsed > reload_time, elapsed in milliseconds, reload_time in microseconds
Reloaded(elapsed, reload_time) == elapsed * 1000 > reload_time

\* lines 443-450: the ship's acceleration for this frame
ShipAcc(s, in) ==
    IF "Up" \in in.down THEN VScale(vec_from_rot(s.ship.rot), 10, 1000)
    ELSE IF "Down" \in in.down /\ s.has_brakes
         THEN VScale(VNeg(s.ship.vel), 1, 20)
         ELSE VScale(VNeg(s.ship.vel), 1, 1000)

\* lines 452-462: fire a bullet
ShootBullet(s, in) ==
    IF "Space" \in in.down
       /\ Reloaded(s.game_t - s.last_bullet_shot, s.bullet_reload_time)
    THEN LET rot_vec == vec_from_rot(s.ship.rot)
         IN  [s EXCEPT
                !.bullets = Append(@,
                    [pos |-> VAdd(s.ship.pos,
                                  VScale(rot_vec, SHIP_HEIGHT, 2000)),
                     vel |-> VScale(rot_vec, 300, 1000),
                     shot_at |-> s.game_t,
                     collided |-> FALSE]),
                !.last_bullet_shot = s.game_t]
    ELSE s

\* a launch that asks for the key and the reload time only
RocketReady(s, in) ==
    /\ "LeftAlt" \in in.down
    /\ Reloaded(s.game_t - s.last_rocket_shot, s.rocket_reload_time)

\* lines 465-467: the condition of a launch
CanShootRocket(s, in) ==
    /\ "LeftAlt" \in in.down
    /\ Reloaded(s.game_t - s.last_rocket_shot, s.rocket_reload_time)
    /\ s.rocket_stockpile > 0

\* lines 464-485: launch a rocket; the set of states the draws can give
ShootRocket(s, in) ==
    IF CanShootRocket(s, in)
    THEN {LET sf == IF s.rocket_side = "Left" THEN -1 ELSE 1
              rot_vec == vec_from_rot(s.ship.rot + sf * angle)
          IN  [s EXCEPT
                 !.rocket_stockpile = @ - 1,
                 !.rocket_side = IF @ = "Left" THEN "Right" ELSE "Left",
                 !.rockets = Append(@,
                     [pos |-> VAdd(s.ship.pos,
                                   VScale(rot_vec, SHIP_HEIGHT, 2000)),
                      vel |-> VAdd(VScale(s.ship.vel, 9, 10),
                                   VScale(rot_vec, speed, 1000)),
                      rot |-> s.ship.rot,
                      shot_at |-> s.game_t,
                      collided |-> FALSE,
                      steer |-> FALSE]),
                 !.last_rocket_shot = s.game_t] :
            angle \in RocketAngleDraws, speed \in RocketSpeedDraws}
    ELSE {s}

\* lines 487-493: produce rockets
ProduceRockets(s, frame_t) ==
    LET progress == s.rocket_production_progress
                    + Div(s.rocket_production_per_sec * frame_t, 1000)
        new_rockets == progress \div One
    IN  IF progress >= One
        THEN [s EXCEPT !.rocket_production_progress =
                           progress - new_rockets * One,
                       !.rocket_stockpile = @ + new_rockets]
        ELSE [s EXCEPT !.rocket_production_progress = progress]

\* lines 495-496: regenerate shields
RegenerateShields(s, frame_t) ==
    [s EXCEPT !.shields = @ + Div(s.shield_regeneration_per_sec * frame_t,
                                  1000)]

\* lines 498-503: steer
SteerShip(s, in) ==
    IF "Right" \in in.down
    THEN [s EXCEPT !.ship.rot = @ + SHIP_ROTATION_SPEED]
    ELSE IF "Left" \in in.down
         THEN [s EXCEPT !.ship.rot = @ - SHIP_ROTATION_SPEED]
         ELSE s

\* an integration without the cap
Unclamped(vel) == vel

\* lines 506-509: the velocity the ship is moved by
ClampShipVel(vel) == IF LenMore(vel, Px(5)) THEN NormTo(vel, Px(5)) ELSE vel

\* lines 505-510: Euler integration of the ship
MoveShip(s, acc) ==
    TheOne({[s EXCEPT !.ship.vel = vel, !.ship.pos = VAdd(@, vel)] :
               vel \in {ClampShipVel(VAdd(s.ship.vel, acc))}})

\* lines 513-517
MoveBullet(b) == [b EXCEPT !.pos = VAdd(@, b.vel)]

\* the key of min_by_key in line 529 for asteroid a
TargetKey(rocket, a) ==
    <<Max(Abs(angle_between(vec_from_rot(rocket.rot),
                            VSub(a.pos, rocket.pos))), 20),
      Div(Length(VSub(a.pos, rocket.pos)), 30)>>

KeyLess(k, l) == k[1] < l[1] \/ (k[1] = l[1] /\ k[2] < l[2])

RECURSIVE TargetFrom(_, _, _, _, _)
\* the scan of min_by_key from asteroid i on; best is the least so far
TargetFrom(rocket, asteroids, i, best, best_key) ==
    IF i > Len(asteroids) THEN best
    ELSE TheOne({IF KeyLess(key, best_key)
                 THEN TargetFrom(rocket, asteroids, i + 1, i, key)
                 ELSE TargetFrom(rocket, asteroids, i + 1, best, best_key) :
                    key \in {TargetKey(rocket, asteroids[i])}})

\* Iterator::min_by_key: the index of the first least element, 0 if none
TargetIndex(rocket, asteroids) ==
    IF asteroids = <<>> THEN 0
    ELSE TheOne({TargetFrom(rocket, asteroids, 2, 1, key) :
                    key \in {TargetKey(rocket, asteroids[1])}})

\* lines 536-539: the heading after turning to asteroid t (the rocket
\* keeps its heading when there is no asteroid)
TurnedTo(rocket, asteroids, t) ==
    IF t = 0 THEN rocket.rot
    ELSE rocket.rot
         + Min(angle_between(vec_from_rot(rocket.rot),
                             VSub(asteroids[t].pos, rocket.pos)), 10)

\* lines 525-540: the heading after steering
SteerRocket(rocket, asteroids) ==
    TheOne({TurnedTo(rocket, asteroids, t) :
               t \in {TargetIndex(rocket, asteroids)}})

\* lines 522-524: the rocket steers from now on
RocketSteers(rocket) == rocket.steer \/ LenMore(rocket.vel, Px(8))

\* lines 545-547: the cap on a rocket's speed
ClampRocketVel(vel) ==
    IF LenMore(vel, Px(15)) THEN NormTo(vel, Px(15)) ELSE vel

\* lines 542-547: accelerate along the heading
Accelerated(rocket) ==
    TheOne({[rocket EXCEPT !.vel = ClampRocketVel(v)] :
               v \in {VAdd(rocket.vel,
                           VScale(vec_from_rot(rocket.rot), 18, 1000))}})

\* lines 521-548: steering and thrust, once the rocket is 0.3 s old
Thrust(rocket, asteroids) ==
    TheOne({Accelerated(r) :
               r \in {IF RocketSteers(rocket)
                       THEN [rocket EXCEPT
                               !.steer = TRUE,
                               !.rot = SteerRocket(rocket, asteroids)]
                       ELSE rocket}})

\* lines 520-551: one rocket's frame
MoveRocket(rocket, asteroids, game_t) ==
    TheOne({[r EXCEPT !.pos = VAdd(@, r.vel)] :
               r \in {IF rocket.shot_at + 300 < game_t
                       THEN Thrust(rocket, asteroids)
                       ELSE rocket}})

\* lines 553-558
MoveAsteroid(a) == [a EXCEPT !.pos = VAdd(@, a.vel)]

\* lines 513-558: move the bullets, the rockets, then the asteroids
MoveAll(s) ==
    [s EXCEPT
       !.bullets = [k \in 1..Len(@) |-> MoveBullet(@[k])],
       !.rockets = [k \in 1..Len(@) |->
                       MoveRocket(@[k], s.asteroids, s.game_t)],
       !.asteroids = [k \in 1..Len(@) |-> MoveAsteroid(@[k])]]

\* lines 560-561: the bullet lifetime filter before the collision pass
BulletLifetime(s) ==
    [s EXCEPT !.bullets = SelectSeq(@, LAMBDA b : b.shot_at + 2500 > s.game_t)]

\* lines 435-437: the clock advances by the frame time
Clock(s, in) == [s EXCEPT !.game_t = @ + in.frame_t]

\* lines 487-503: production, shield regeneration and steering
Maintained(s, in) ==
    TheOne({SteerShip(s2, in) :
               s2 \in {RegenerateShields(s1, in.frame_t) :
                          s1 \in {ProduceRockets(s, in.frame_t)}}})

\* lines 505-558: the ship, then the bullets, rockets and asteroids move
Integrated(s, acc) == TheOne({MoveAll(s1) : s1 \in {MoveShip(s, acc)}})

\* lines 443-558 from the state s1 whose clock has advanced
MovedFrom(s1, in) ==
    UNION {{Integrated(s4, acc) :
               s4 \in {Maintained(s3, in) : s3 \in ShootRocket(s2, in)}} :
              s2 \in {ShootBullet(s1, in)}, acc \in {ShipAcc(s1, in)}}

\* lines 435-558: every state the collision pass can start from (before
\* the bullet lifetime filter of line 561)
Moved(s0, in) == UNION {MovedFrom(s1, in) : s1 \in {Clock(s0, in)}}

---------------------------------------------------------------------------
(* MainState::update, lines 563-635: the asteroid collision pass *)

NoShipHit == [some |-> FALSE, asteroid |-> 0, shields |-> 0]

NoKill == [some |-> FALSE, asteroid |-> 0, bullet |-> -1, rocket |-> -1,
           hit_vel |-> <<0, 0>>]

\* Vec2::project_onto(rhs); rhs = 0 gives NaN in the program, zero here
ProjectOnto(v, rhs) ==
    TheOne({VScale(u, Dot(v, u), 1000000) : u \in {Unit(rhs)}})

\* line 567
ShipOverlaps(a, ship) ==
    LenLess(VSub(a.pos, ship.pos), a.size + SHIP_HEIGHT \div 3)

\* line 588
BulletOverlaps(a, b) == LenLess(VSub(a.pos, b.pos), a.size)

\* line 597
RocketOverlaps(a, r) == LenLess(VSub(a.pos, r.pos), a.size + ROCKET_SIZE)

\* lines 587-593: the first bullet inside asteroid a, 0 if none
FirstBullet(a, bullets) ==
    IF \E k \in 1..Len(bullets) : BulletOverlaps(a, bullets[k])
    THEN CHOOSE k \in 1..Len(bullets) :
            /\ BulletOverlaps(a, bullets[k])
            /\ \A j \in 1..(k - 1) : ~BulletOverlaps(a, bullets[j])
    ELSE 0

\* lines 596-602: the first rocket that touches asteroid a, 0 if none
FirstRocket(a, rockets) ==
    IF \E k \in 1..Len(rockets) : RocketOverlaps(a, rockets[k])
    THEN CHOOSE k \in 1..Len(rockets) :
            /\ RocketOverlaps(a, rockets[k])
            /\ \A j \in 1..(k - 1) : ~RocketOverlaps(a, rockets[j])
    ELSE 0

\* line 569: the shield takes the hit
ShieldHolds(shields) == shields > One

\* lines 574-576: the ship bounces off asteroid a
Bounced(s, a) ==
    [s EXCEPT !.ship.vel =
        VSub(@, VScale(ProjectOnto(@, VSub(a.pos, s.ship.pos)), 6, 1))]

\* lines 568-580: the ship touches asteroid i and was not colliding
ShipHit(c, i, s1) ==
    IF s1.game_t < s1.invulnerable_until
    THEN [c EXCEPT !.s = Bounced(s1, c.s.asteroids[i]),
                   !.colliding = TRUE,
                   !.ship_hit = [some |-> TRUE, asteroid |-> i,
                                 shields |-> c.s.shields]]
    ELSE [c EXCEPT !.s = s1, !.lost = "asteroid",
                   !.ship_hit = [some |-> TRUE, asteroid |-> i,
                                 shields |-> c.s.shields]]

\* lines 569-572: a shield unit is spent for 0.3 s of invulnerability
Shielded(s) ==
    IF ShieldHolds(s.shields)
    THEN [s EXCEPT !.shields = @ - One,
                   !.invulnerable_until = s.game_t + 300]
    ELSE s

\* lines 567-582 for asteroid i: the ship's side of the encounter.
\* c.colliding is the local of line 564, c.s.colliding the field.
ShipEncounter(c, i) ==
    IF ~ShipOverlaps(c.s.asteroids[i], c.s.ship) THEN c
    ELSE IF c.colliding \/ c.s.colliding
         THEN [c EXCEPT !.colliding = TRUE]
         ELSE TheOne({ShipHit(c, i, s1) : s1 \in {Shielded(c.s)}})

\* an asteroid that never breaks
BreaksNever(a) == FALSE

\* an asteroid that breaks whatever its sides
BreaksAlways(a) == TRUE

\* line 609: the asteroid breaks into two
Breaks(a) == a.sides > 3

\* XP that counts the pieces instead of the asteroid
XpForPieces(a) == IF a.sides > 3 THEN 2 ELSE 0

\* XP worth several levels for one asteroid
XpForBounty(a) == 20

\* line 606: the XP for destroying asteroid a
XpFor(a) == 1

\* lines 610-629: the two fragments, for every pair of speed draws
Fragments(a, hit_vel) ==
    IF Breaks(a)
    THEN {<<[pos |-> a.pos,
             vel |-> NormTo(<<hit_vel[2], -hit_vel[1]>>, k1),
             size |-> Div(a.size * 8, 10),
             sides |-> a.sides - 1,
             collided |-> FALSE],
            [pos |-> a.pos,
             vel |-> NormTo(<<-hit_vel[2], hit_vel[1]>>, k2),
             size |-> Div(a.size * 8, 10),
             sides |-> a.sides - 1,
             collided |-> FALSE]>> :
            k1 \in FragmentSpeedDraws, k2 \in FragmentSpeedDraws}
    ELSE {<<>>}

\* lines 603-631: asteroid i is destroyed by bullet bi or rocket ri (0 for
\* none; the rocket's velocity wins).  c.broke says the loop was left by
\* the break of line 631.
Destroyed(c, i, bi, ri, hit_vel) ==
    {[c EXCEPT
        !.s = [c.s EXCEPT
                 !.bullets = IF bi > 0
                             THEN [@ EXCEPT ![bi].collided = TRUE] ELSE @,
                 !.rockets = IF ri > 0
                             THEN [@ EXCEPT ![ri].collided = TRUE] ELSE @,
                 !.asteroids[i].collided = TRUE,
                 !.xp = @ + XpFor(c.s.asteroids[i])],
        !.new_asteroids = @ \o f,
        !.kill = [some |-> TRUE, asteroid |-> i,
                  bullet |-> IF bi > 0 THEN c.s.bullets[bi].shot_at ELSE -1,
                  rocket |-> IF ri > 0 THEN c.s.rockets[ri].shot_at ELSE -1,
                  hit_vel |-> hit_vel],
        !.broke = TRUE] :
       f \in Fragments(c.s.asteroids[i], hit_vel)}

\* lines 584-632 for asteroid i: the projectiles' side.  Answers the
\* contexts the draws can give.
ProjectileEncounter(c, i) ==
    UNION {IF bi = 0 /\ ri = 0 THEN {c}
           ELSE Destroyed(c, i, bi, ri,
                          IF ri > 0 THEN c.s.rockets[ri].vel
                          ELSE c.s.bullets[bi].vel) :
              bi \in {FirstBullet(c.s.asteroids[i], c.s.bullets)},
              ri \in {FirstRocket(c.s.asteroids[i], c.s.rockets)}}

RECURSIVE CollideFrom(_, _)
\* the rest of the loop of line 565 after the ship's side of asteroid i
AfterShip(c1, i) ==
    IF c1.lost # "no" THEN {c1}
    ELSE UNION {IF c2.broke THEN {c2} ELSE CollideFrom(c2, i + 1) :
                   c2 \in ProjectileEncounter(c1, i)}

\* the loop of line 565 from asteroid i on
CollideFrom(c, i) ==
    IF i > Len(c.s.asteroids) THEN {c}
    ELSE UNION {AfterShip(c1, i) : c1 \in {ShipEncounter(c, i)}}

\* the locals of the frame before the collision pass
FrameContext(s) ==
    [s |-> s, colliding |-> FALSE,
     new_asteroids |-> <<>>, new_black_holes |-> <<>>,
     lost |-> "no", broke |-> FALSE,
     ship_hit |-> NoShipHit, kill |-> NoKill, swallowed |-> {}]

\* lines 563-635; line 635 stores the local in the field
CollisionPass(s) ==
    UNION {{IF c.lost # "no" THEN c
            ELSE [c EXCEPT !.s.colliding = c.colliding] :
               c \in CollideFrom(c0, 1)} : c0 \in {FrameContext(s)}}

---------------------------------------------------------------------------
(* MainState::update, lines 637-696: the black holes *)

\* 70. * size / dist.powi(2) px per frame, sizes and distances in 1/30 px.
\* The program divides by a zero distance (NaN); the model answers 0 there
\* and for a distance whose square does not fit.
Gravity(size, dist) ==
    IF dist = 0 \/ dist > 46340 THEN 0 ELSE Div(63000 * size, dist * dist)

\* lines 653-660: the hole two overlapping holes merge into; vel1 and vel2
\* are their velocities after the pull
MergedHole(bh1, bh2, vel1, vel2) ==
    [pos |-> VAdd(bh1.pos, VScale(VSub(bh2.pos, bh1.pos), bh2.size,
                                  bh1.size + bh2.size)),
     vel |-> VAdd(VScale(vel1, bh1.size, bh1.size + bh2.size),
                  VScale(vel2, bh2.size, bh1.size + bh2.size)),
     size |-> Min(bh1.size + bh2.size, Px(400)),
     collided |-> FALSE]

\* lines 648-662 for the pair bh1 = holes[i], bh2 = holes[j], which pull
\* each other by pull and merge when they overlap
PullPair(c, i, j, bh1, bh2, pull, merge) ==
    [c EXCEPT
       !.s.black_holes = [@ EXCEPT
                            ![i].vel = VAdd(@, pull),
                            ![j].vel = VSub(@, pull),
                            ![i].collided = @ \/ merge,
                            ![j].collided = @ \/ merge],
       !.new_black_holes =
           IF merge
           THEN Append(@, MergedHole(bh1, bh2, VAdd(bh1.vel, pull),
                                     VSub(bh2.vel, pull)))
           ELSE @]

\* lines 642-662 for the pair bh1 = holes[i], bh2 = holes[j]
AttractPair(c, i, j) ==
    TheOne({TheOne({PullPair(c, i, j, bh1, bh2, pull,
                             LenLess(VSub(bh2.pos, bh1.pos),
                                     bh1.size + bh2.size)) :
                       pull \in {NormTo(VSub(bh2.pos, bh1.pos),
                                        Gravity(bh1.size + bh2.size,
                                            Length(VSub(bh2.pos, bh1.pos))))}}) :
               bh1 \in {c.s.black_holes[i]}, bh2 \in {c.s.black_holes[j]}})

RECURSIVE AttractFrom(_, _, _)
\* the loops of lines 639-665 from the pair (i, j) on; only i > j acts
AttractFrom(c, i, j) ==
    IF i > Len(c.s.black_holes) THEN c
    ELSE IF j >= i THEN AttractFrom(c, i + 1, 1)
    ELSE TheOne({AttractFrom(c1, i, j + 1) : c1 \in {AttractPair(c, i, j)}})

\* line 673: the velocity of an object at pos after the hole's pull
Pulled(bh, pos, vel) ==
    VAdd(vel, NormTo(VSub(bh.pos, pos),
                     Gravity(bh.size, Length(VSub(bh.pos, pos)))))

\* line 675: the object is inside the hole's capture range
Captured(bh, pos, radius) == LenLess(VSub(bh.pos, pos), bh.size + radius)

\* lines 670-682: affect_obj on an object of this radius
AffectObj(bh, obj, radius) ==
    [obj EXCEPT !.vel = Pulled(bh, obj.pos, @),
                !.collided = @ \/ Captured(bh, obj.pos, radius)]

\* what a hole captures in this frame, named by kind and shot_at / index
CapturedBy(bh, s) ==
    {<<"bullet", s.bullets[k].shot_at>> : k \in
        {k \in 1..Len(s.bullets) : Captured(bh, s.bullets[k].pos, Px(2))}}
    \cup
    {<<"rocket", s.rockets[k].shot_at>> : k \in
        {k \in 1..Len(s.rockets) : Captured(bh, s.rockets[k].pos, Px(5))}}
    \cup
    {<<"asteroid", k>> : k \in
        {k \in 1..Len(s.asteroids) :
            Captured(bh, s.asteroids[k].pos, s.asteroids[k].size)}}

\* a black hole that captures no ship
ShipSpared(bh, ship) == FALSE

\* the ship's capture ends the game (line 693)
ShipCaptured(bh, ship) == Captured(bh, ship.pos, SHIP_HEIGHT \div 3)

\* lines 668-695 for hole i, which has moved to bh
HoleAffects(c, i, bh) ==
    [c EXCEPT
       !.s = [c.s EXCEPT
                !.black_holes[i] = bh,
                !.bullets = [k \in 1..Len(@) |-> AffectObj(bh, @[k], Px(2))],
                !.rockets = [k \in 1..Len(@) |-> AffectObj(bh, @[k], Px(5))],
                !.asteroids = [k \in 1..Len(@) |->
                                  AffectObj(bh, @[k], @[k].size)],
                !.ship.vel = Pulled(bh, c.s.ship.pos, @)],
       !.swallowed = @ \cup CapturedBy(bh, c.s),
       !.lost = IF ShipCaptured(bh, c.s.ship) THEN "black_hole" ELSE "no"]

\* lines 668-695 for hole i
HoleActs(c, i) ==
    TheOne({HoleAffects(c, i, bh) :
               bh \in {[c.s.black_holes[i] EXCEPT !.pos = VAdd(@, c.s.black_holes[i].vel)]}})

RECURSIVE HolesFrom(_, _)
\* the loop of line 667 from hole i on
HolesFrom(c, i) ==
    IF i > Len(c.s.black_holes) THEN c
    ELSE TheOne({IF c1.lost # "no" THEN c1 ELSE HolesFrom(c1, i + 1) :
                    c1 \in {HoleActs(c, i)}})

\* lines 637-696
BlackHolePass(c) ==
    TheOne({HolesFrom(c1, 1) : c1 \in {AttractFrom(c, 1, 1)}})

---------------------------------------------------------------------------
(* MainState::update, lines 698-750: new asteroids *)

\* line 705: asteroid_per_pixel * new_pixels, in 1/1000, lengths in pixels
AmbientAmount(gen_vec, scr) ==
    LET gx == Div(gen_vec[1], 30)
        gy == Div(gen_vec[2], 30)
        new_pixels == 5 * Abs(gx) * scr[2] + 5 * Abs(gy) * scr[1] - gx * gy
        area == scr[1] * scr[2]
    IN  IF new_pixels <= 0 THEN 0
        ELSE IF new_pixels < 100000
             THEN Div(ASTEROID_DENSITY * 1000 * new_pixels, area)
             ELSE Div(ASTEROID_DENSITY * new_pixels, Max(1, Div(area, 1000)))

\* lines 707-710: gen_range(0.8 * amount, 2 + 1.2 * amount) truncated to
\* usize; the model draws the low end of the range
AmbientCountDraws(amount) == {Div(amount * 8, 10000)}

\* lines 713-728: where an ambient asteroid appears, relative to the ship;
\* the inner gen_range draws are taken at the middle of the far edge
AmbientOffsetDraws(gen_vec, scr) ==
    LET new_x == Abs(gen_vec[1]) * scr[2]
        new_y == Abs(gen_vec[2]) * scr[1]
        sx == IF gen_vec[1] < 0 THEN -1 ELSE 1
        sy == IF gen_vec[2] < 0 THEN -1 ELSE 1
    IN  (IF new_x > 0 THEN {<<sx * Div(Px(scr[1]) * 5, 2), 0>>} ELSE {})
        \cup
        (IF new_y > 0 THEN {<<0, sy * Div(Px(scr[2]) * 5, 2)>>} ELSE {})

\* a generation step that runs whenever the ship has moved at all
MovedAtAll(gen_vec) == gen_vec # <<0, 0>>

\* line 698: the ship is more than 50 px away from the anchor
MovedOn(gen_vec) == LenMore(gen_vec, Px(50))

\* lines 705-733: the asteroids generated for the travel gen_vec
AmbientFor(c, gen_vec, scr) ==
    {[c EXCEPT !.new_asteroids = @ \o [k \in 1..n |-> a],
               !.s.last_asteroid_generate_pos = c.s.ship.pos] :
        a \in UNION {AsteroidNew(VAdd(c.s.ship.pos, off), scr) :
                        off \in AmbientOffsetDraws(gen_vec, scr)},
        n \in AmbientCountDraws(AmbientAmount(gen_vec, scr))}

\* lines 698-735: the asteroids generated as the ship travels; the model
\* repeats one draw of Asteroid::new for all asteroids of a frame
GenerateAmbient(c, scr) ==
    UNION {IF MovedOn(gen_vec) THEN AmbientFor(c, gen_vec, scr)
           ELSE {c} :
              gen_vec \in {VSub(c.s.ship.pos,
                                c.s.last_asteroid_generate_pos)}}

\* lines 743-748: one hostile asteroid, at the near end of the distance
\* range and at the low end of the speed range; the velocity Asteroid::new
\* drew is overwritten, so only its sides draw shows
HostileAsteroids(s, scr) ==
    LET diag == ScreenDiag(scr)
    IN  {[a EXCEPT !.vel = NormTo(VSub(s.ship.pos, a.pos), speed)] :
            a \in UNION {AsteroidNew(VAdd(s.ship.pos,
                                         VScale(from_angle(bearing), d, 1000)),
                                    scr) :
                            bearing \in BearingDraws,
                            d \in {diag}},
            speed \in {Px(1)}}

\* lines 741-749: one turn of the loop adds asteroid a
HostileAdded(c, a) ==
    [c EXCEPT !.s.new_hostile_asteroids = @ - One,
              !.new_asteroids = Append(@, a)]

RECURSIVE HostileLoop(_, _)
\* the while loop of line 740
HostileLoop(c, scr) ==
    IF c.s.new_hostile_asteroids >= One
    THEN UNION {HostileLoop(c1, scr) :
                   c1 \in {HostileAdded(c, a) :
                              a \in HostileAsteroids(c.s, scr)}}
    ELSE {c}

\* lines 737-738: hostile asteroids accumulate with time
HostileAccrued(c, frame_t) ==
    [c EXCEPT !.s.new_hostile_asteroids =
        @ + Div(Div(c.s.hostile_asteroids_per_second, 10) * frame_t, 100)]

\* lines 737-750
GenerateHostile(c, frame_t, scr) ==
    UNION {HostileLoop(c1, scr) : c1 \in {HostileAccrued(c, frame_t)}}

---------------------------------------------------------------------------
(* MainState::update, lines 752-797: cleanup, new black holes, levelling *)

\* a cleanup that looks at the age only
KeepBulletByAge(b, game_t) == b.shot_at + BULLET_LIFETIME > game_t

\* line 754
KeepBullet(b, game_t) == b.shot_at + BULLET_LIFETIME > game_t /\ ~b.collided

\* line 756
KeepRocket(r, game_t) == r.shot_at + ROCKET_LIFETIME > game_t /\ ~r.collided

\* lines 758 and 762: within half the world's diagonal of the ship
InWorld(pos, ship, scr) ==
    LenLess(VSub(ship.pos, pos), Div(ScreenDiag(scr) * 5, 2))

\* line 758
KeepAsteroid(a, ship, scr) == ~a.collided /\ InWorld(a.pos, ship, scr)

\* a cleanup that keeps the black holes that merged
KeepBlackHoleInWorld(bh, ship, scr) == InWorld(bh.pos, ship, scr)

\* line 762
KeepBlackHole(bh, ship, scr) == ~bh.collided /\ InWorld(bh.pos, ship, scr)

\* lines 752-764: remove the collided objects, append the new ones
Cleanup(c, scr) ==
    [c EXCEPT
       !.s.bullets = SelectSeq(@, LAMBDA b : KeepBullet(b, c.s.game_t)),
       !.s.rockets = SelectSeq(@, LAMBDA r : KeepRocket(r, c.s.game_t)),
       !.s.asteroids =
           SelectSeq(@, LAMBDA a : KeepAsteroid(a, c.s.ship, scr))
           \o c.new_asteroids,
       !.s.black_holes =
           SelectSeq(@, LAMBDA bh : KeepBlackHole(bh, c.s.ship, scr))
           \o c.new_black_holes,
       !.new_asteroids = <<>>,
       !.new_black_holes = <<>>]

\* line 766: how many black holes the level asks for
WantedBlackHoles(level) == (level + 5) \div 10

\* lines 768-782: one new black hole, at the near end of the distance range,
\* aimed at the ship (rand_vec = 0) at the low end of the speed range
NewBlackHoles(s, scr) ==
    LET diag == ScreenDiag(scr)
    IN  {[pos |-> pos,
          vel |-> NormTo(VSub(s.ship.pos, pos), speed),
          size |-> size,
          collided |-> FALSE] :
            pos \in {VAdd(s.ship.pos, VScale(from_angle(bearing), d, 1000)) :
                        bearing \in HoleBearingDraws,
                        d \in {Div(diag * 4, 10)}},
            speed \in {Px(1)},
            size \in HoleSizeDraws}

RECURSIVE SpawnBlackHoles(_, _)
\* the while loop of line 766
SpawnBlackHoles(s, scr) ==
    IF Len(s.black_holes) < WantedBlackHoles(s.level)
    THEN UNION {SpawnBlackHoles(s1, scr) :
                   s1 \in {[s EXCEPT !.black_holes = Append(@, bh)] :
                              bh \in NewBlackHoles(s, scr)}}
    ELSE {s}

\* a loop that needs more XP than the level asks for
LevelOvershot(s) == s.xp > s.next_level_xp

\* line 787: the level is complete
LevelComplete(s) == s.xp >= s.next_level_xp

\* lines 788-796: the next level, with the prompt lu
LevelRaised(s, lu) ==
    [s EXCEPT
       !.level = @ + 1,
       !.xp = @ - s.next_level_xp,
       !.next_level_xp = Max(Div(@ * 11, 10), @ + 1),
       !.hostile_asteroids_per_second = Div(@ * 6, 5),
       !.max_hostile_asteroid_speed = Div(@ * 27, 25),
       !.level_up = lu]

RECURSIVE LevelLoop(_)
\* the while loop of lines 787-797
LevelLoop(s) ==
    IF LevelComplete(s)
    THEN UNION {LevelLoop(s1) :
                   s1 \in {LevelRaised(s, lu) :
                              lu \in LevelUpNew(3, s.available_upgrades)}}
    ELSE {s}

---------------------------------------------------------------------------
(* MainState::update as a whole, and the frames of the two GameStates *)

NoObs ==
    [path |-> "init", lost |-> "no", confirmed |-> FALSE, pre |-> NoMain,
     ship_hit |-> NoShipHit, kill |-> NoKill, swallowed |-> {},
     fragments |-> <<>>, added |-> <<>>, flagged |-> {}, removed |-> {},
     at_level |-> NoMain, enter |-> FALSE, menu |-> "none",
     pause_key |-> FALSE, holes |-> <<>>, merged |-> <<>>,
     holes_kept |-> <<>>, ambient |-> 0, cursor_key |-> "none",
     fire_rocket |-> FALSE, drained |-> 0]

\* a frame update left before the simulation ran
Early(s, path, confirmed) ==
    [s |-> s, obs |-> [NoObs EXCEPT !.path = path, !.confirmed = confirmed]]

\* update returned Some(MenuState::Lost)
LostIn(c, pre, confirmed) ==
    [s |-> NoMain,
     obs |-> [NoObs EXCEPT !.path = "lost", !.lost = c.lost,
                           !.confirmed = confirmed, !.pre = pre,
                           !.ship_hit = c.ship_hit, !.kill = c.kill,
                           !.swallowed = c.swallowed,
                           !.fragments = c.new_asteroids,
                           !.holes = c.s.black_holes]]

\* what a completed frame leaves in obs; amb is the context after the
\* ambient generation, g the context at cleanup, cl the context after it, s1 the state the levelling loop starts from
Completed(c, amb, g, cl, s1, pre, confirmed, fragments, scr) ==
    [NoObs EXCEPT
       !.ambient = Len(amb.new_asteroids) - Len(c.new_asteroids),
       !.holes = g.s.black_holes, !.merged = g.new_black_holes,
       !.holes_kept = cl.s.black_holes,
       !.path = "tick", !.confirmed = confirmed, !.pre = pre,
       !.ship_hit = c.ship_hit, !.kill = c.kill,
       !.swallowed = c.swallowed, !.fragments = fragments,
       !.added = g.new_asteroids,
       !.flagged = {k \in 1..Len(g.s.asteroids) : g.s.asteroids[k].collided},
       !.removed = {k \in 1..Len(g.s.asteroids) :
                       ~KeepAsteroid(g.s.asteroids[k], g.s.ship, scr)},
       !.at_level = [xp |-> s1.xp, level |-> s1.level,
                     next_level_xp |-> s1.next_level_xp,
                     available_upgrades |-> s1.available_upgrades]]

\* lines 752-797 from the context g the generation left
Cleaned(c, amb, g, pre, confirmed, fragments, scr) ==
    UNION {UNION {{[s |-> s2,
                    obs |-> Completed(c, amb, g, k, s1, pre, confirmed,
                                      fragments, scr)] :
                      s2 \in LevelLoop(s1)} :
                     s1 \in SpawnBlackHoles(k.s, scr)} :
              k \in {Cleanup(g, scr)}}

\* lines 698-797 after the two passes: everything up to the end of update
Finish(c, pre, confirmed, fragments, in, scr) ==
    UNION {UNION {Cleaned(c, amb, g, pre, confirmed, fragments, scr) :
                     g \in GenerateHostile(amb, in.frame_t, scr)} :
              amb \in GenerateAmbient(c, scr)}

\* lines 637-797 from the context c the collision pass left; h is the
\* context after the black holes
AfterHoles(c, h, pre, confirmed, in, scr) ==
    IF h.lost # "no" THEN {LostIn(h, pre, confirmed)}
    ELSE Finish(h, pre, confirmed, c.new_asteroids, in, scr)

\* lines 563-797 from the state the collision pass starts in
Collided(pre, confirmed, in, scr) ==
    UNION {IF c.lost # "no" THEN {LostIn(c, pre, confirmed)}
           ELSE UNION {AfterHoles(c, h, pre, confirmed, in, scr) :
                          h \in {BlackHolePass(c)}} :
              c \in CollisionPass(pre)}

\* lines 435-805: the simulation of one frame from state s
Simulate(s, confirmed, in, scr) ==
    UNION {Collided(pre, confirmed, in, scr) :
              pre \in {BulletLifetime(m) : m \in Moved(s, in)}}

\* lines 430-805: after the pause key
AfterPause(s1, confirmed, in, scr) ==
    IF s1.paused THEN {Early(s1, "paused", confirmed)}
    ELSE Simulate(s1, confirmed, in, scr)

\* lines 427-805: from the pause key on; obs.pause_key is what
\* is_key_pressed(KeyCode::P) answered
FromPause(s, confirmed, in, scr) ==
    {[r EXCEPT !.obs.pause_key = "P" \in in.pressed,
               !.obs.fire_rocket = /\ r.obs.path \in {"tick", "lost"}
                                   /\ "LeftAlt" \in in.down] :
        r \in UNION {AfterPause(s1, confirmed, in, scr) :
                        s1 \in {PauseStep(s, in)}}}

\* an update that returns after the prompt in either branch
ReturnsAlways(how) == TRUE

\* line 423: the return sits in the branch that moves the cursor
ReturnsAfterPrompt(how) == how = "nav"

\* lines 408-425 and on: p is what the prompt did with the keys
AfterPrompt(p, in, scr) ==
    IF p.how = "panic" THEN {Early(NoMain, "panic", FALSE)}
    ELSE IF ReturnsAfterPrompt(p.how)
         THEN {[Early(p.s, "nav", p.how = "confirm") EXCEPT
                  !.obs.cursor_key = CursorKey(in)]}
         ELSE FromPause(p.s, p.how = "confirm", in, scr)

\* MainState::update: every outcome of one frame
UpdateResults(s, in, scr) ==
    IF s.level_up.some
    THEN UNION {AfterPrompt(p, in, scr) : p \in {PromptStep(s, in)}}
    ELSE FromPause(s, FALSE, in, scr)

\* which GameState Game.main holds after the frame
GameAfter(path) ==
    CASE path = "lost"  -> "Lost"
      [] path = "panic" -> "Crashed"
      [] OTHER          -> "Playing"

\* a frame with this outcome advanced the simulation
Simulated(path) == path \in {"tick", "lost"}

\* some asteroid overlaps the ship in state s (line 567)
InContact(s) ==
    \E k \in 1..Len(s.asteroids) : ShipOverlaps(s.asteroids[k], s.ship)

\* the shield units spent over the run of consecutive simulated frames
\* with the ship in contact that ends with the frame of result r, given
\* the count the frame before left; a frame that does not simulate leaves
\* the count alone
Drained(before, r) ==
    IF r.obs.path # "tick" THEN before
    ELSE IF InContact(r.obs.pre)
         THEN before + (r.obs.pre.shields - r.s.shields) \div One
         ELSE 0

\* Game::do_frame while main is a MainState (MainState::do_frame)
Update ==
    /\ game = "Playing"
    /\ budget > 0
    /\ \E in \in Inputs :
         \E r \in UpdateResults(main, in, screen) :
            /\ main' = r.s
            /\ obs' = [r.obs EXCEPT !.drained = Drained(obs.drained, r)]
            /\ game' = GameAfter(r.obs.path)
            /\ budget' = IF Simulated(r.obs.path) THEN budget - 1
                                                   ELSE budget
    /\ UNCHANGED screen

\* the states in which Game.main is a MenuState
Menus == {"Initial", "Lost", "Won"}

\* a menu that starts the game whatever the keys
MenuStartsAlways(in) == TRUE

\* menu_state.rs line 32: is_key_down(KeyCode::Enter)
MenuStarts(in) == "Enter" \in in.down

\* Game::do_frame while main is a MenuState (MenuState::do_frame)
MenuFrame ==
    /\ game \in Menus
    /\ \E in \in Inputs :
         /\ obs' = [NoObs EXCEPT
                      !.path = IF MenuStarts(in) THEN "start" ELSE "menu",
                      !.enter = "Enter" \in in.down,
                      !.menu = game]
         /\ IF MenuStarts(in)
            THEN /\ game' = "Playing"
                 /\ main' \in MainStateNew(screen)
                 /\ budget' = MaxTicks
            ELSE UNCHANGED <<game, main, budget>>
    /\ UNCHANGED screen

\* Game::new(), in the large window
Init ==
    /\ game = "Initial"
    /\ main = NoMain
    /\ screen = BigScreen
    /\ budget = 0
    /\ obs = NoObs

Next == MenuFrame \/ Update

Spec == Init /\ [][Next]_vars

---------------------------------------------------------------------------
(* A session well under way.  Level 5 and its black hole are some twenty   *)
(* kills away from Game::new(), so the late game is explored from a state  *)
(* a session reaches in a 40 x 40 window after a minute of play: level 4,  *)
(* one kill short of level 5, three upgrades taken (brakes, missiles,      *)
(* bullet reload), the ship at rest 49.8 px above the last generation      *)
(* anchor, and three asteroids of that window's size (4 px) around it.     *)

LateAsteroids ==
    <<Asteroid(<<0, -720>>, <<0, 0>>, 120, 4),
      Asteroid(<<-430, 0>>, <<27, 0>>, 120, 3),
      Asteroid(<<720, 0>>, <<0, 0>>, 120, 3)>>

LateState ==
    [MainStateWith(<<0, 0>>, LateAsteroids) EXCEPT
       !.game_t = 60000,
       !.last_asteroid_generate_pos = <<0, 1494>>,
       !.bullets = <<[pos |-> <<0, -3375>>, vel |-> <<0, -300>>,
                      shot_at |-> 59000, collided |-> FALSE]>>,
       !.last_bullet_shot = 59000,
       !.rockets = <<[pos |-> <<600, -2400>>, vel |-> <<0, -450>>, rot |-> 0,
                      shot_at |-> 56500, collided |-> FALSE,
                      steer |-> TRUE]>>,
       !.last_rocket_shot = 56500,
       !.level = 4,
       !.xp = 5,
       !.next_level_xp = 6,
       !.hostile_asteroids_per_second = 115197,
       !.new_hostile_asteroids = 900000,
       !.max_hostile_asteroid_speed = 1259,
       !.available_upgrades =
           <<"missiles", "rocket_reload", "bullet_reload", "production",
             "shields">>,
       !.next_rockets = 10,
       !.rocket_stockpile = 6,
       !.has_brakes = TRUE,
       !.bullet_reload_time = 400000]

InitLate ==
    /\ game = "Playing"
    /\ main = LateState
    /\ screen = SmallScreen
    /\ budget = MaxLateTicks
    /\ obs = NoObs

NextLate == Update

SpecLate == InitLate /\ [][NextLate]_vars

---------------------------------------------------------------------------
(* A long session.  Two black holes exist from level 15 on, some two       *)
(* hundred kills away from Game::new(), so they are explored from a state  *)
(* a session reaches in a 40 x 40 window after 15 minutes of play: level   *)
(* 15, one kill short of level 16, fourteen upgrades taken (bullet reload  *)
(* nine times, missile reload three times, shields and production once     *)
(* each; the brakes never), one rocket left, the ship flying upwards near  *)
(* its speed cap towards two asteroids, and two black holes that have      *)
(* just come within reach of each other, with a bullet and an asteroid     *)
(* about to fall into them.                                                *)

DeepAsteroids ==
    <<Asteroid(<<0, -510>>, <<0, 0>>, 120, 3),
      Asteroid(<<0, -720>>, <<0, 0>>, 120, 3),
      Asteroid(<<1900, -1300>>, <<0, 0>>, 120, 3)>>

DeepBlackHoles ==
    <<[pos |-> <<1500, -1500>>, vel |-> <<90, 0>>, size |-> 570,
       collided |-> FALSE],
      [pos |-> <<2100, -1500>>, vel |-> <<-90, 0>>, size |-> 150,
       collided |-> FALSE]>>

DeepState ==
    [MainStateWith(<<0, 0>>, DeepAsteroids) EXCEPT
       !.game_t = 900000,
       !.ship.vel = <<0, -145>>,
       !.bullets = <<[pos |-> <<1400, -1200>>, vel |-> <<212, -212>>,
                      shot_at |-> 899000, collided |-> FALSE]>>,
       !.last_bullet_shot = 899000,
       !.last_rocket_shot = 890000,
       !.black_holes = DeepBlackHoles,
       !.level = 15,
       !.xp = 16,
       !.next_level_xp = 17,
       !.hostile_asteroids_per_second = 855909,
       !.max_hostile_asteroid_speed = 2925,
       !.shields = 2300000,
       !.shield_regeneration_per_sec = 1666,
       !.rocket_stockpile = 1,
       !.rocket_production_progress = 500000,
       !.rocket_production_per_sec = 300000,
       !.bullet_reload_time = 67108,
       !.rocket_reload_time = 512000]

InitDeep ==
    /\ game = "Playing"
    /\ main = DeepState
    /\ screen = SmallScreen
    /\ budget = MaxDeepTicks
    /\ obs = NoObs

NextDeep == Update

SpecDeep == InitDeep /\ [][NextDeep]_vars

---------------------------------------------------------------------------
(* Close combat.  Sessions of level 4 as in LateState and of levels 15    *)
(* and 25 as in DeepState, seen at moments that take aimed play to reach. *)

\* a bullet and a steering rocket one frame short of the same asteroid
CrossfireState ==
    [LateState EXCEPT
       !.asteroids = <<Asteroid(<<0, -1500>>, <<0, 0>>, 120, 4),
                       Asteroid(<<720, 0>>, <<0, 0>>, 120, 3)>>,
       !.bullets = <<[pos |-> <<0, -1150>>, vel |-> <<0, -300>>,
                      shot_at |-> 59800, collided |-> FALSE]>>,
       !.last_bullet_shot = 59800,
       !.rockets = <<[pos |-> <<100, -1000>>, vel |-> <<0, -450>>,
                      rot |-> 0, shot_at |-> 59000, collided |-> FALSE,
                      steer |-> TRUE]>>,
       !.last_rocket_shot = 59000,
       !.rocket_stockpile = 5]

\* two black holes far from the ship and from each other
IdleBlackHoles ==
    <<[pos |-> <<3600, 0>>, vel |-> <<0, 30>>, size |-> 150,
       collided |-> FALSE],
      [pos |-> <<-3600, 0>>, vel |-> <<0, -30>>, size |-> 150,
       collided |-> FALSE]>>

\* the session of DeepState with two shield upgrades for one of its bullet
\* reloads, the ship at rest, an asteroid ahead of it and, later in the
\* pool, an asteroid that drifts into the ship
ContactState ==
    [DeepState EXCEPT
       !.ship.vel = <<0, 0>>,
       !.asteroids = <<Asteroid(<<0, -720>>, <<0, 0>>, 120, 4),
                       Asteroid(<<-390, 0>>, <<27, 0>>, 120, 3)>>,
       !.bullets = <<>>,
       !.black_holes = IdleBlackHoles,
       !.xp = 10,
       !.shield_regeneration_per_sec = 9999,
       !.bullet_reload_time = 83885]

\* a third black hole within reach of the two of DeepBlackHoles
TripleBlackHoles ==
    Append(DeepBlackHoles,
           [pos |-> <<1800, -1300>>, vel |-> <<0, -30>>, size |-> 300,
            collided |-> FALSE])

\* the session of DeepState ten levels on: level 25, which asks for three
\* black holes, with the brakes, two more bullet reloads (the last one),
\* three missile and four more shield upgrades taken
TripleState ==
    [DeepState EXCEPT
       !.black_holes = TripleBlackHoles,
       !.level = 25,
       !.xp = 10,
       !.next_level_xp = 36,
       !.hostile_asteroids_per_second = 5299552,
       !.max_hostile_asteroid_speed = 6308,
       !.available_upgrades =
           <<"missiles", "rocket_reload", "production", "shields">>,
       !.has_brakes = TRUE,
       !.bullet_reload_time = 42948,
       !.next_rockets = 20,
       !.shield_regeneration_per_sec = 34998]

\* the sessions and how many simulated frames of each are explored
MeleeScenes ==
    {[s |-> CrossfireState, ticks |-> MaxDuelTicks],
     [s |-> TripleState, ticks |-> MaxDuelTicks],
     [s |-> ContactState, ticks |-> MaxMeleeTicks]}

InitMelee ==
    /\ game = "Playing"
    /\ \E scene \in MeleeScenes :
          /\ main = scene.s
          /\ budget = scene.ticks
    /\ screen = SmallScreen
    /\ obs = NoObs

NextMelee == Update

SpecMelee == InitMelee /\ [][NextMelee]_vars

---------------------------------------------------------------------------
(* LevelUp::new on pools of every size.  The level loop hands LevelUp::new *)
(* whatever pool the session has; the pools drawn here are the suffixes of *)
(* the pool missiles, production, shields, down to the empty pool.  (The   *)
(* three upgrades of that pool never report exhaustion, so a session of    *)
(* the shipped make_upgrades keeps all three; the shorter pools are the    *)
(* configurations of a pool with fewer inexhaustible upgrades.)  The frame *)
(* explored is the one after the late session's level-up to level 5.       *)

PoolDraws ==
    {<<>>, <<"shields">>, <<"production", "shields">>,
     <<"missiles", "production", "shields">>}

\* the late session right after its level-up, with this pool and prompt
PoolState(pool, lu) ==
    [LateState EXCEPT
       !.level = 5,
       !.xp = 0,
       !.next_level_xp = 7,
       !.hostile_asteroids_per_second = 138236,
       !.max_hostile_asteroid_speed = 1359,
       !.available_upgrades = pool,
       !.level_up = lu]

InitPool ==
    /\ game = "Playing"
    /\ main \in UNION {{PoolState(pool, lu) : lu \in LevelUpNew(3, pool)} :
                          pool \in PoolDraws}
    /\ screen = SmallScreen
    /\ budget = MaxPoolTicks
    /\ obs = NoObs

NextPool == Update

SpecPool == InitPool /\ [][NextPool]_vars

---------------------------------------------------------------------------
(* The upgrade ladder.  What a session's upgrades can become is decided by *)
(* the level loop (lines 786-797) and the prompt (lines 408-425) alone, so  *)
(* the two are applied to each other's results from the state of           *)
(* MainState::new on, without the simulation between them: a level is      *)
(* reached, the cursor moves, a choice is confirmed, and so on until the   *)
(* exhaustible upgrades are gone.  The upgrades that never leave the pool  *)
(* are taken at most MaxRepeats times each.                                *)

\* how often the session in state s has taken the inexhaustible upgrade u
Repeats(s, u) ==
    CASE u = "missiles"   -> (s.next_rockets - 5) \div 5
      [] u = "production" -> s.rocket_production_per_sec \div 300000
      [] u = "shields"    -> IF s.shield_regeneration_per_sec = 0 THEN 0
                             ELSE 1 + (s.shield_regeneration_per_sec - 1666)
                                         \div 8333
      [] OTHER            -> 0

\* the frame confirms an upgrade the ladder has taken often enough
Repeated(s, in) ==
    /\ "Enter" \in in.pressed
    /\ s.level_up.selected < Len(s.level_up.upgrade_choices)
    /\ Repeats(s, s.level_up.upgrade_choices[s.level_up.selected + 1])
          >= MaxRepeats

\* lines 786-797: the kill that completes the level has just been counted
LevelReached ==
    /\ game = "Playing"
    /\ ~main.level_up.some
    /\ main' \in LevelLoop([main EXCEPT !.xp = main.next_level_xp])
    /\ obs' = [NoObs EXCEPT !.path = "level"]
    /\ UNCHANGED <<game, screen, budget>>

\* lines 408-425: a frame with the prompt pending
PromptFrame ==
    /\ game = "Playing"
    /\ main.level_up.some
    /\ \E in \in Inputs :
         /\ ~Repeated(main, in)
         /\ \E r \in {PromptStep(main, in)} :
              /\ r.how # "panic"
              /\ main' = r.s
              /\ obs' = [NoObs EXCEPT !.path = r.how,
                                      !.confirmed = r.how = "confirm",
                                      !.cursor_key = CursorKey(in)]
    /\ UNCHANGED <<game, screen, budget>>

InitLadder ==
    /\ game = "Playing"
    /\ main = MainStateWith(<<0, 0>>, LateAsteroids)
    /\ screen = SmallScreen
    /\ budget = 0
    /\ obs = NoObs

NextLadder == LevelReached \/ PromptFrame

SpecLadder == InitLadder /\ [][NextLadder]_vars

---------------------------------------------------------------------------
(* The properties *)

\* the elements of a sequence
Range(seq) == {seq[k] : k \in 1..Len(seq)}

\* the frame ran the collision pass
RanCollisionPass == obs.path \in {"tick", "lost"}

\* the asteroid the projectile of this frame destroyed
Parent == obs.pre.asteroids[obs.kill.asteroid]

\* how many asteroids of the pool the cleanup of this frame kept
KeptAsteroids == Len(obs.pre.asteroids) - Cardinality(obs.removed)

\* C1: in a tick that runs the collision pass, an asteroid overlapping the
\* ship after motion, with less than one shield unit and the clock not
\* before invulnerable_until, makes update return Lost in that tick,
\* whatever the preceding ticks and wherever the asteroid sits in the pool.
C1LostOnOverlap ==
    (/\ RanCollisionPass
     /\ \E i \in 1..Len(obs.pre.asteroids) :
           ShipOverlaps(obs.pre.asteroids[i], obs.pre.ship)
     /\ obs.pre.shields < One
     /\ obs.pre.game_t >= obs.pre.invulnerable_until)
    => game = "Lost"

\* C2: an asteroid-ship hit with at least one full shield unit (exactly 1.0
\* included) consumes exactly one unit, sets invulnerable_until to
\* game_t + 0.3 and does not return Lost.
C2ShieldHolds ==
    (RanCollisionPass /\ obs.ship_hit.some /\ obs.ship_hit.shields >= One)
    => /\ obs.lost # "asteroid"
       /\ game = "Playing" =>
             /\ main.shields = obs.ship_hit.shields - One
             /\ main.invulnerable_until = main.game_t + 300

\* the fields C3 lists: the clock, the pause flag, the ship, the pools, xp
\* and level
Frozen(s, t) ==
    /\ t.game_t = s.game_t
    /\ t.paused = s.paused
    /\ t.ship = s.ship
    /\ t.bullets = s.bullets
    /\ t.rockets = s.rockets
    /\ t.asteroids = s.asteroids
    /\ t.black_holes = s.black_holes
    /\ t.xp = s.xp
    /\ t.level = s.level

\* C3 as stated: every tick that starts with a prompt pending returns after
\* the prompt and leaves the clock, the pause flag, the ship, the pools, xp
\* and level unchanged, on a cursor move and on Enter alike.
C3PromptOnly ==
    [][(game = "Playing" /\ main.level_up.some)
       => (game' = "Playing" /\ Frozen(main, main'))]_vars

\* C3 amended: a tick that starts with a prompt pending and without Enter
\* changes the cursor only and returns; with Enter the prompt is cleared,
\* the upgrade applied and the same tick goes on with the pause key and,
\* unless paused, the whole simulation.
C3PromptThenTick ==
    [][(game = "Playing" /\ main.level_up.some)
       => IF obs'.confirmed
          THEN /\ obs'.path \in {"paused", "tick", "lost"}
               /\ obs'.path = "paused" =>
                     /\ ~main'.level_up.some
                     /\ main'.game_t = main.game_t
               /\ obs'.path \in {"tick", "lost"} =>
                     /\ ~obs'.pre.level_up.some
                     /\ obs'.pre.game_t >= main.game_t
          ELSE /\ obs'.path = "nav"
               /\ main' = [main EXCEPT !.level_up.selected =
                                           main'.level_up.selected]]_vars

C3Witness ==
    /\ obs.confirmed
    /\ obs.path = "tick"
    /\ obs.pre.game_t > LateState.game_t

\* C4: at the end of every completed tick xp < next_level_xp.
C4XpBelowNext == game = "Playing" => main.xp < main.next_level_xp

C4Witness ==
    /\ obs.path = "tick"
    /\ obs.at_level.xp >= obs.at_level.next_level_xp
    /\ main.xp < main.next_level_xp

\* C5: when xp is exactly next_level_xp, the tick raises level by one,
\* leaves xp = 0 and installs one prompt of min(3, pool size) pairwise
\* distinct upgrades of the pool, cursor at 0.
C5ExactLevelUp ==
    (obs.path = "tick" /\ obs.at_level.xp = obs.at_level.next_level_xp)
    => LET choices == main.level_up.upgrade_choices
           pool == obs.at_level.available_upgrades
       IN  /\ main.level = obs.at_level.level + 1
           /\ main.xp = 0
           /\ main.level_up.some
           /\ main.level_up.selected = 0
           /\ Len(choices) = Min(3, Len(pool))
           /\ Cardinality(Range(choices)) = Len(choices)
           /\ Range(choices) \subseteq Range(pool)

C5Witness ==
    /\ obs.path = "tick"
    /\ obs.at_level.xp = obs.at_level.next_level_xp
    /\ Len(main.level_up.upgrade_choices) = 3
    /\ main.level = 5

\* a and b are at right angles, to within the rounding of the fixed point
Perpendicular(a, b) ==
    Abs(Dot(a, b)) * 20 <= Length(a) * Length(b)

\* C6: an asteroid with more than 3 sides destroyed by a projectile leaves
\* exactly two children in the pool at that tick's cleanup: sides one less,
\* 0.8 times the size, the parent's position, not collided, velocities
\* along the two opposite perpendiculars of the hit vector; the parent is
\* removed in the same cleanup.
C6TwoChildren ==
    (obs.path = "tick" /\ obs.kill.some /\ Parent.sides > 3)
    => /\ Len(obs.fragments) = 2
       /\ \A k \in 1..Len(obs.fragments) :
             LET child == obs.fragments[k]
             IN  /\ child.sides = Parent.sides - 1
                 /\ child.size * 10 <= Parent.size * 8
                 /\ Parent.size * 8 < (child.size + 1) * 10
                 /\ child.pos = Parent.pos
                 /\ ~child.collided
                 /\ child.vel # <<0, 0>>
                 /\ Perpendicular(child.vel, obs.kill.hit_vel)
       /\ Dot(obs.fragments[1].vel, obs.fragments[2].vel) < 0
       /\ obs.kill.asteroid \in obs.removed
       /\ Len(main.asteroids) = KeptAsteroids + Len(obs.added)
       /\ SubSeq(main.asteroids, KeptAsteroids + 1, KeptAsteroids + 2)
              = obs.fragments

C6Witness ==
    /\ obs.path = "tick"
    /\ obs.kill.some
    /\ Parent.sides > 3
    /\ Len(main.asteroids) = Len(obs.pre.asteroids) + 1

\* C7: every asteroid of the pool has at least 3 sides in every reachable
\* state, and destroying an asteroid of exactly 3 sides adds no children.
C7AtLeastThreeSides ==
    /\ game = "Playing" => \A a \in Range(main.asteroids) : a.sides >= 3
    /\ (RanCollisionPass /\ obs.kill.some /\ Parent.sides = 3)
       => /\ obs.fragments = <<>>
          /\ obs.path = "tick" =>
                Len(main.asteroids) = KeptAsteroids + Len(obs.added)

C7Witness ==
    /\ obs.path = "tick"
    /\ obs.kill.some
    /\ Parent.sides = 3
    /\ obs.fragments = <<>>

\* the asteroids of the pool a black hole captured in this frame
Eaten ==
    {k \in 1..Len(obs.pre.asteroids) : <<"asteroid", k>> \in obs.swallowed}

\* the asteroids of the pool a projectile hit in this frame
Shot == IF obs.kill.some THEN {obs.kill.asteroid} ELSE {}

\* the XP gained in this frame
XpGained == obs.at_level.xp - obs.pre.xp

\* C8 as stated: in every completed tick the XP gained is the number of
\* asteroids destroyed in it (flagged collided and removed at cleanup).
C8XpPerDestroyed ==
    obs.path = "tick" => XpGained = Cardinality(obs.flagged)

\* C8 amended: in every completed tick the XP gained is the number of
\* asteroids a projectile hit in it, whether they break or not; an asteroid
\* a black hole captures is flagged and removed as well but gives no XP.
C8XpPerShot ==
    obs.path = "tick"
    => /\ XpGained = Cardinality(Shot)
       /\ obs.flagged = Shot \cup Eaten
       /\ obs.flagged \subseteq obs.removed

C8Witness ==
    /\ obs.path = "tick"
    /\ Eaten # {}
    /\ XpGained = 0

\* no collided object, no bullet of 1.5 s or more, no rocket of 4 s or more
Clean(s) ==
    /\ \A b \in Range(s.bullets) :
          ~b.collided /\ s.game_t - b.shot_at < 1500
    /\ \A r \in Range(s.rockets) :
          ~r.collided /\ s.game_t - r.shot_at < 4000
    /\ \A a \in Range(s.asteroids) : ~a.collided
    /\ \A bh \in Range(s.black_holes) : ~bh.collided

\* bullet b was flagged collided in the frame that obs describes
BulletFlagged(b, o) ==
    \/ o.kill.some /\ o.kill.bullet = b.shot_at
    \/ <<"bullet", b.shot_at>> \in o.swallowed

\* C9: at the end of every completed tick no collided bullet, rocket,
\* asteroid or black hole remains, every bullet is younger than 1.5 s and
\* every rocket younger than 4 s; and a tick never removes an uncollided
\* bullet younger than 1.5 s.
C9CleanPools ==
    [][obs'.path = "tick"
       => /\ Clean(main')
          /\ \A b \in Range(main.bullets) :
                (main'.game_t - b.shot_at < 1500 /\ ~BulletFlagged(b, obs'))
                => \E c \in Range(main'.bullets) :
                      c.shot_at = b.shot_at /\ ~c.collided]_vars

C9Witness ==
    /\ obs.path = "tick"
    /\ \E b \in Range(obs.pre.bullets) :
          /\ main.game_t - b.shot_at >= 1500
          /\ ~BulletFlagged(b, obs)
          /\ \A c \in Range(main.bullets) : c.shot_at # b.shot_at
    /\ \E c \in Range(main.bullets) : main.game_t - c.shot_at < 1500

\* one frame of the top-level machine, as C10 allows it
C10Step ==
    /\ (game \in Menus /\ game' # game) => (game' = "Playing" /\ obs'.enter)
    /\ (game \in Menus /\ obs'.path \in {"start", "menu"} /\ obs'.enter)
       => game' = "Playing"
    /\ (game = "Playing" /\ game' # game)
       => (game' = "Lost" /\ obs'.lost \in {"asteroid", "black_hole"})

\* C10: the game starts in Menu(Initial); a menu changes only to Playing and
\* only with Enter down; Playing changes only to Lost, on a fatal asteroid
\* collision or a black-hole capture; Won and Menu(Initial) are never
\* entered.
C10Transitions ==
    /\ game = "Initial"
    /\ [][C10Step]_vars
    /\ [](game # "Won")

C10Witness ==
    /\ game = "Lost"
    /\ obs.lost = "asteroid"
    /\ obs.ship_hit.some

\* the session MainState::new() builds, as C11 lists it
FreshSession(s) ==
    /\ s.level = 1
    /\ s.xp = 0
    /\ s.next_level_xp = 3
    /\ s.game_t = 0
    /\ ~s.paused
    /\ ~s.level_up.some
    /\ s.rocket_stockpile = 2
    /\ s.shields = 0
    /\ s.shield_regeneration_per_sec = 0
    /\ ~s.has_brakes
    /\ s.bullet_reload_time = 500000
    /\ s.rocket_reload_time = 1000000
    /\ s.bullets = <<>>
    /\ s.rockets = <<>>
    /\ s.black_holes = <<>>
    /\ s.available_upgrades = UpgradeNames
    /\ s.next_rockets = 5

\* C11: every change from a menu (Initial or Lost) to Playing starts a
\* session that is fully reset, whatever the session before it did: level
\* 1, xp 0, next_level_xp 3, clock 0, not paused, no prompt, stockpile 2,
\* shields 0 without regeneration, no brakes, reload times 0.5 s and 1.0 s,
\* empty bullet, rocket and black-hole pools, all six upgrades available
\* and the missile upgrade's counter at 5.
C11FreshSession ==
    [][(game \in Menus /\ game' = "Playing") => FreshSession(main')]_vars

C11Witness ==
    /\ game = "Playing"
    /\ obs.path = "start"
    /\ obs.menu = "Lost"
    /\ FreshSession(main)

\* asteroid b is asteroid a one step of motion later
Drifted(a, b) == b = [a EXCEPT !.pos = VAdd(a.pos, a.vel)]

\* t is the state s one step of motion later: the clock advanced by one
\* frame time, the ship and the asteroids moved by their velocities, the
\* rocket production advanced by its rate, and the counters that motion
\* does not touch as they were
Resumed(s, t) ==
    /\ t.game_t - s.game_t \in FrameTimes
    /\ ~t.paused
    /\ t.ship.pos = VAdd(s.ship.pos, t.ship.vel)
    /\ t.ship.rot = s.ship.rot
    /\ Len(t.asteroids) = Len(s.asteroids)
    /\ \A k \in 1..Len(s.asteroids) : Drifted(s.asteroids[k], t.asteroids[k])
    /\ Len(t.rockets) = Len(s.rockets)
    /\ \A k \in 1..Len(s.rockets) : t.rockets[k].shot_at = s.rockets[k].shot_at
    /\ \A b \in Range(t.bullets) :
          \E a \in Range(s.bullets) : b = [a EXCEPT !.pos = VAdd(a.pos, a.vel)]
    /\ t.black_holes = s.black_holes
    /\ t.xp = s.xp
    /\ t.level = s.level
    /\ t.next_level_xp = s.next_level_xp
    /\ t.last_bullet_shot = s.last_bullet_shot
    /\ t.last_rocket_shot = s.last_rocket_shot
    /\ t.bullet_reload_time = s.bullet_reload_time
    /\ t.rocket_reload_time = s.rocket_reload_time
    /\ t.rocket_stockpile * One + t.rocket_production_progress
          = s.rocket_stockpile * One + s.rocket_production_progress
            + Div(s.rocket_production_per_sec * (t.game_t - s.game_t), 1000)
    /\ t.new_hostile_asteroids = s.new_hostile_asteroids
    /\ t.hostile_asteroids_per_second = s.hostile_asteroids_per_second
    /\ t.available_upgrades = s.available_upgrades

\* one frame of a session without a pending prompt, as C12 allows it
C12Step ==
    (game = "Playing" /\ ~main.level_up.some)
    => /\ (main.paused /\ ~obs'.pause_key)
          => (obs'.path = "paused" /\ main' = main)
       /\ (main.paused /\ obs'.pause_key)
          => (obs'.path \in {"tick", "lost"} /\ Resumed(main, obs'.pre))
       /\ (~main.paused /\ obs'.pause_key)
          => (obs'.path = "paused" /\ main' = [main EXCEPT !.paused = TRUE])
       /\ (~main.paused /\ ~obs'.pause_key)
          => obs'.path \in {"tick", "lost"}

\* C12: while paused with no prompt pending, a frame without the pause key
\* changes nothing of the session (clock, ship, pools, xp, level, reload
\* timers, production and hostile counters); the pause key toggles the
\* flag, and the frame that un-pauses simulates from exactly the frozen
\* state.
C12PauseFreezes == [][C12Step]_vars

C12Witness ==
    /\ obs.path = "tick"
    /\ obs.pause_key
    /\ obs.pre.game_t > LateState.game_t
    /\ Resumed([LateState EXCEPT !.game_t = obs.pre.game_t - 600], obs.pre)

\* the upgrade under the cursor of the pending prompt
Chosen == main.level_up.upgrade_choices[main.level_up.selected + 1]

\* the first state of the frame in which a confirmed upgrade shows: the
\* state the collision pass starts in, or the final one of a paused frame
Upgraded == IF obs'.path = "paused" THEN main' ELSE obs'.pre

\* what the upgrades set, apart from the stockpile and the shield charge
Installed(s) ==
    [brakes |-> s.has_brakes, missiles |-> s.next_rockets,
     rocket_reload |-> s.rocket_reload_time,
     bullet_reload |-> s.bullet_reload_time,
     production |-> s.rocket_production_per_sec,
     shields |-> s.shield_regeneration_per_sec]

\* the rockets in stock, launched since s and in production, in 1/1000000
RocketsHeld(s, t) ==
    (t.rocket_stockpile + Len(t.rockets) - Len(s.rockets)) * One
    + t.rocket_production_progress

\* what production adds between s and t, in 1/1000000 of a rocket
Produced(rate, s, t) == Div(rate * (t.game_t - s.game_t), 1000)

\* state t shows the effect of upgrade u applied once to s
AppliedOnce(s, u, t) ==
    /\ Installed(t) =
          [Installed(s) EXCEPT
             !.brakes = IF u = "brakes" THEN TRUE ELSE @,
             !.missiles = IF u = "missiles" THEN @ + 5 ELSE @,
             !.rocket_reload = IF u = "rocket_reload" THEN Div(@ * 4, 5) ELSE @,
             !.bullet_reload = IF u = "bullet_reload" THEN Div(@ * 4, 5) ELSE @,
             !.production = IF u = "production" THEN @ + 300000 ELSE @,
             !.shields = IF u = "shields"
                         THEN (IF @ = 0 THEN 1666 ELSE @ + 8333) ELSE @]
    /\ RocketsHeld(s, t) =
          s.rocket_stockpile * One + s.rocket_production_progress
          + (IF u = "missiles" THEN s.next_rockets * One ELSE 0)
          + Produced(t.rocket_production_per_sec, s, t)
    /\ t.shields =
          (IF u = "shields" /\ s.shield_regeneration_per_sec = 0
           THEN One ELSE s.shields)
          + Produced(t.shield_regeneration_per_sec, s, t)

\* the effect of upgrade u reported exhaustion in the state t it left
Exhausted(u, t) ==
    \/ u = "brakes"
    \/ u = "rocket_reload" /\ t.rocket_reload_time <= 50000
    \/ u = "bullet_reload" /\ t.bullet_reload_time <= 50000

\* one frame of a session, as C13 allows it
C13Step ==
    /\ (game = "Playing" /\ main.level_up.some /\ obs'.confirmed)
       => /\ ~Upgraded.level_up.some
          /\ AppliedOnce(main, Chosen, Upgraded)
          /\ Upgraded.available_upgrades =
                IF Exhausted(Chosen, Upgraded)
                THEN SelectSeq(main.available_upgrades,
                               LAMBDA u : u # Chosen)
                ELSE main.available_upgrades
          /\ Exhausted(Chosen, Upgraded)
             => Len(Upgraded.available_upgrades)
                   = Len(main.available_upgrades) - 1
    /\ (game = "Playing" /\ game' = "Playing")
       => /\ Range(main'.available_upgrades)
                \subseteq Range(main.available_upgrades)
          /\ main'.level_up.some
             => Range(main'.level_up.upgrade_choices)
                   \subseteq Range(main'.available_upgrades)

\* C13: a confirmed choice applies the chosen upgrade's effect exactly once
\* and clears the prompt; the upgrade leaves the pool if and only if its
\* effect reports exhaustion, it alone leaves and the other upgrades stay;
\* the pool never grows again and every prompt offers upgrades of the pool
\* only, so a removed upgrade is never offered later.
C13ConfirmApplies == [][C13Step]_vars

C13Witness ==
    /\ obs.confirmed
    /\ obs.path = "tick"
    /\ main.has_brakes
    /\ main.available_upgrades = Tail(UpgradeNames)

HolesOverlap(a, b) == LenLess(VSub(b.pos, a.pos), a.size + b.size)

\* v is the average of va and vb weighted by the radii ra and rb, to
\* within the rounding of the fixed point
WeightedAverage(v, va, ra, vb, rb) ==
    \A d \in 1..2 :
       Abs(v[d] * (ra + rb) - (ra * va[d] + rb * vb[d])) <= 2 * (ra + rb)

\* hole m is what the overlapping holes a and b merge into; a and b carry
\* the velocities the pairwise pass left them with
MergedFrom(m, a, b) ==
    /\ m.size = Min(a.size + b.size, Px(400))
    /\ WeightedAverage(m.vel, a.vel, a.size, b.vel, b.size)
    /\ WeightedAverage(m.pos, a.pos, a.size, b.pos, b.size)
    /\ ~m.collided

\* black hole k of the pool where the pairwise pass found it, with the
\* velocity the pass left it
HoleParent(k) ==
    [obs.pre.black_holes[k] EXCEPT !.vel = obs.holes[k].vel]

\* C15: when the pool holds two live black holes whose centres are closer
\* than the sum of their radii at the pairwise pass, the cleanup of that
\* tick leaves exactly one new hole in their place, of radius
\* min(r1 + r2, 400) and with the radius-weighted average of the parents'
\* velocities (as the pass left them), and neither parent is in the pool.
C15MergeLeavesOne ==
    (/\ obs.path = "tick"
     /\ Len(obs.pre.black_holes) = 2
     /\ HolesOverlap(obs.pre.black_holes[1], obs.pre.black_holes[2]))
    => /\ Len(obs.merged) = 1
       /\ obs.holes_kept = obs.merged
       /\ MergedFrom(obs.merged[1], HoleParent(1), HoleParent(2))
       /\ \A k \in 1..2 :
             /\ obs.holes[k].size = obs.pre.black_holes[k].size
             /\ \A bh \in Range(main.black_holes) :
                   bh # obs.holes[k] /\ bh # obs.pre.black_holes[k]

C15Witness ==
    /\ obs.path = "tick"
    /\ Len(obs.pre.black_holes) = 2
    /\ HolesOverlap(obs.pre.black_holes[1], obs.pre.black_holes[2])
    /\ Len(obs.merged) = 1
    /\ obs.merged[1].size = 720
    /\ main.black_holes[1] = obs.merged[1]

\* the centre at pos is closer to black hole bh than the hole's radius plus
\* this radius
InReach(bh, pos, radius) == LenLess(VSub(bh.pos, pos), bh.size + radius)

\* the ship's radius (Ship::radius, line 50)
ShipRadius == SHIP_HEIGHT \div 3

\* some black hole of the pass has the ship in its capture range
ShipInReach ==
    \E bh \in Range(obs.holes) : InReach(bh, obs.pre.ship.pos, ShipRadius)

\* the hit of this or of an earlier tick leaves the ship invulnerable
Invulnerable ==
    \/ obs.pre.game_t < obs.pre.invulnerable_until
    \/ obs.ship_hit.some /\ ShieldHolds(obs.ship_hit.shields)

\* C16: a ship whose centre is closer to a black hole than the hole's
\* radius plus the ship's radius in the black-hole pass ends the game in
\* that tick, whatever the shield charge and the invulnerability window;
\* bullets, rockets and asteroids in a hole's capture range are flagged
\* only and are gone from their pools at the end of the tick.
C16HoleCaptures ==
    /\ (RanCollisionPass /\ obs.lost # "asteroid" /\ ShipInReach)
       => (game = "Lost" /\ obs.lost = "black_hole")
    /\ obs.lost = "black_hole" => ShipInReach
    /\ obs.path = "tick"
       => \A bh \in Range(obs.holes) :
             /\ \A b \in Range(obs.pre.bullets) :
                   InReach(bh, b.pos, Px(2))
                   => \A c \in Range(main.bullets) : c.shot_at # b.shot_at
             /\ \A r \in Range(obs.pre.rockets) :
                   InReach(bh, r.pos, Px(5))
                   => \A c \in Range(main.rockets) : c.shot_at # r.shot_at
             /\ \A k \in 1..Len(obs.pre.asteroids) :
                   InReach(bh, obs.pre.asteroids[k].pos,
                           obs.pre.asteroids[k].size)
                   => (k \in obs.flagged /\ k \in obs.removed)

C16Witness ==
    /\ game = "Lost"
    /\ obs.lost = "black_hole"
    /\ ShipInReach
    /\ obs.pre.shields >= One
    /\ Invulnerable
\* the speed of vel is at most the ship's cap of 5 px per frame, to within
\* the rounding of the fixed point (one unit of 1/30 px)
AtMostCap(vel) == Dot(vel, vel) <= (Px(5) + 1) * (Px(5) + 1)

\* C17: the velocity that moves the ship in the integration step of a
\* tick is never above the cap of 5 px per frame, whatever the keys and
\* the state before, a shield bounce or a black hole's pull in the tick
\* before included; thrust held on reaches the cap and stops there.
C17SpeedCapped ==
    [][obs'.path \in {"tick", "lost"}
       => /\ AtMostCap(obs'.pre.ship.vel)
          /\ obs'.pre.ship.pos = VAdd(main.ship.pos, obs'.pre.ship.vel)]_vars

\* the tick after the bounce: the ship came back from the asteroid at five
\* times its speed and moves at the cap
C17Witness ==
    /\ obs.path = "tick"
    /\ obs.pre.game_t > DeepState.game_t
    /\ obs.pre.ship.vel[2] = 150
    /\ AtMostCap(obs.pre.ship.vel)

\* the ship at pos is more than 50 px away from the anchor
FarFrom(anchor, pos) == LenMore(VSub(pos, anchor), Px(50))

\* one frame of a session, as C18 allows it
C18Step ==
    /\ obs'.path = "tick"
       => /\ main'.last_asteroid_generate_pos =
                IF FarFrom(main.last_asteroid_generate_pos, main'.ship.pos)
                THEN main'.ship.pos
                ELSE main.last_asteroid_generate_pos
          /\ obs'.ambient > 0
             => FarFrom(main.last_asteroid_generate_pos, main'.ship.pos)
          /\ ~FarFrom(main'.last_asteroid_generate_pos, main'.ship.pos)
    /\ (game = "Playing" /\ game' = "Playing" /\ obs'.path # "tick")
       => main'.last_asteroid_generate_pos = main.last_asteroid_generate_pos

\* C18: a tick changes last_asteroid_generate_pos only if the ship is more
\* than 50 px away from it at the generation step, and then sets it to the
\* ship's position; ambient asteroids are generated in such ticks only;
\* at the end of every completed tick the anchor is within 50 px of the
\* ship.
C18AnchorFollows == [][C18Step]_vars

C18Witness ==
    /\ obs.path = "tick"
    /\ obs.ambient > 0
    /\ FarFrom(LateState.last_asteroid_generate_pos, main.ship.pos)
    /\ main.last_asteroid_generate_pos = main.ship.pos

\* the cursor one step forward or back among n choices, wrapping round
StepForward(k, n) == IF k = n - 1 THEN 0 ELSE k + 1

StepBack(k, n) == IF k = 0 THEN n - 1 ELSE k - 1

\* the cursor lies on one of the offered choices
CursorOnChoice(lu) ==
    0 <= lu.selected /\ lu.selected < Len(lu.upgrade_choices)

\* one frame of a session, as C19 allows it
C19Step ==
    /\ (game' = "Playing" /\ main'.level_up.some)
       => CursorOnChoice(main'.level_up)
    /\ (game = "Playing" /\ main.level_up.some /\ ~obs'.confirmed)
       => /\ obs'.path = "nav"
          /\ main'.level_up.upgrade_choices = main.level_up.upgrade_choices
          /\ main'.level_up.selected =
                CASE obs'.cursor_key = "Down" ->
                       StepForward(main.level_up.selected,
                                   Len(main.level_up.upgrade_choices))
                  [] obs'.cursor_key = "Up" ->
                       StepBack(main.level_up.selected,
                                Len(main.level_up.upgrade_choices))
                  [] OTHER -> main.level_up.selected

\* C19: while a prompt is pending the cursor lies on one of the offered
\* choices; Down moves it one step forward and wraps from the last choice
\* to the first, Up one step back and wraps from the first to the last,
\* and no other input moves it.
C19CursorWraps == [][C19Step]_vars

C19Witness ==
    /\ game = "Playing"
    /\ obs.path = "nav"
    /\ obs.cursor_key = "Up"
    /\ Len(main.level_up.upgrade_choices) = 3
    /\ main.level_up.selected = 2

\* the rockets the frame launched
Launched == Len(obs'.pre.rockets) - Len(main.rockets)

\* the rockets a confirmed missiles upgrade put in stock in this frame
Granted ==
    IF main.level_up.some /\ obs'.confirmed /\ Chosen = "missiles"
    THEN main.next_rockets ELSE 0

\* one frame of a session, as C20 allows it
C20Step ==
    /\ (game = "Playing" /\ obs'.path \in {"tick", "lost"})
       => /\ Launched \in {0, 1}
          /\ Launched = 1
             => /\ obs'.fire_rocket
                /\ (obs'.pre.game_t - main.last_rocket_shot) * 1000
                      > obs'.pre.rocket_reload_time
                /\ main.rocket_stockpile + Granted > 0
                /\ obs'.pre.rockets[Len(obs'.pre.rockets)].shot_at
                      = obs'.pre.game_t
                /\ obs'.pre.last_rocket_shot = obs'.pre.game_t
          /\ Launched = 0
             => obs'.pre.last_rocket_shot = main.last_rocket_shot
          /\ main.rocket_stockpile + Granted - Launched >= 0
          /\ (obs'.pre.rocket_stockpile + Launched) * One
               + obs'.pre.rocket_production_progress
               = (main.rocket_stockpile + Granted) * One
                 + main.rocket_production_progress
                 + Produced(obs'.pre.rocket_production_per_sec,
                            main, obs'.pre)
          /\ obs'.pre.rocket_production_progress \in 0..(One - 1)
          /\ obs'.pre.rocket_stockpile >= 0
    /\ (game = "Playing" /\ game' = "Playing")
       => /\ main'.rocket_stockpile >= 0
          /\ Len(main'.rockets) <= Len(main.rockets) + 1
          /\ obs'.path \in {"tick"}
             => main'.rocket_stockpile = obs'.pre.rocket_stockpile
          /\ obs'.path \in {"nav", "paused"}
             => /\ main'.rockets = main.rockets
                /\ main'.rocket_stockpile = main.rocket_stockpile + Granted

\* C20: a frame launches at most one rocket, and only when the launch key
\* is held, more than rocket_reload_time has passed on the game clock
\* since the last launch and the stockpile is above 0; a launch takes
\* exactly one rocket from the stockpile, production and the missiles
\* upgrade only add to it, and it never falls below 0.
C20LaunchGuarded == [][C20Step]_vars

C20Witness ==
    /\ game = "Playing"
    /\ obs.path = "tick"
    /\ obs.fire_rocket
    /\ Len(obs.pre.rockets) > 0
    /\ obs.pre.rockets[Len(obs.pre.rockets)].shot_at = obs.pre.game_t
    /\ obs.pre.rocket_stockpile = 0

\* asteroid k of the collision pass of the last frame overlaps a projectile
\* (the bullets are those the lifetime filter of line 561 kept)
ProjectileOn(k) ==
    \/ \E b \in 1..Len(obs.pre.bullets) :
          /\ obs.pre.bullets[b].shot_at + 2500 > obs.pre.game_t
          /\ BulletOverlaps(obs.pre.asteroids[k], obs.pre.bullets[b])
    \/ \E r \in 1..Len(obs.pre.rockets) :
          RocketOverlaps(obs.pre.asteroids[k], obs.pre.rockets[r])

\* asteroid k of the collision pass of the last frame overlaps the ship
ShipOn(k) == ShipOverlaps(obs.pre.asteroids[k], obs.pre.ship)

\* C21: in a completed frame every asteroid that overlaps a bullet or a
\* rocket at the collision pass is flagged destroyed, and the colliding
\* flag the pass leaves says whether any asteroid overlaps the ship,
\* whatever happened to the asteroids earlier in the pool.
C21AllExamined ==
    obs.path = "tick"
    => /\ \A k \in 1..Len(obs.pre.asteroids) :
             ProjectileOn(k) => k \in obs.flagged
       /\ main.colliding
             <=> \E k \in 1..Len(obs.pre.asteroids) : ShipOn(k)

\* the bullets the collision pass of the last frame met
LiveBullets == BulletLifetime(obs.pre).bullets

\* the asteroid the last frame destroyed, as the collision pass met it
Killed == obs.pre.asteroids[obs.kill.asteroid]

\* C22: a destroyed asteroid consumes one projectile: the first bullet
\* that overlaps it if there is one, otherwise the first overlapping
\* rocket; that projectile's velocity is the hit vector and no second
\* projectile is flagged for the asteroid.
C22OneProjectile ==
    obs.kill.some
    => IF FirstBullet(Killed, LiveBullets) > 0
       THEN /\ obs.kill.bullet
                 = LiveBullets[FirstBullet(Killed, LiveBullets)].shot_at
            /\ obs.kill.rocket = -1
            /\ obs.kill.hit_vel
                 = LiveBullets[FirstBullet(Killed, LiveBullets)].vel
       ELSE /\ obs.kill.bullet = -1
            /\ obs.kill.rocket
                 = obs.pre.rockets
                      [FirstRocket(Killed, obs.pre.rockets)].shot_at
            /\ obs.kill.hit_vel
                 = obs.pre.rockets
                      [FirstRocket(Killed, obs.pre.rockets)].vel

\* the holes of the last frame that the pairwise pass left unmerged
Survivors == {k \in 1..Len(obs.holes) : ~obs.holes[k].collided}

\* hole bh holds the object named x (kind and shot_at or pool position) in
\* its capture range at the hole pass of the last frame
Holds(bh, x) ==
    CASE x[1] = "bullet" ->
           \E b \in 1..Len(obs.pre.bullets) :
              /\ obs.pre.bullets[b].shot_at = x[2]
              /\ Captured(bh, obs.pre.bullets[b].pos, Px(2))
      [] x[1] = "rocket" ->
           \E r \in 1..Len(obs.pre.rockets) :
              /\ obs.pre.rockets[r].shot_at = x[2]
              /\ Captured(bh, obs.pre.rockets[r].pos, Px(5))
      [] OTHER ->
           Captured(bh, obs.pre.asteroids[x[2]].pos,
                    obs.pre.asteroids[x[2]].size)

\* C23: whatever the hole pass of a frame captures lies in the capture
\* range of a hole that the pairwise merge pass of that frame left
\* unmerged, and a session is lost to a black hole only when such a hole
\* holds the ship.
C23SurvivorsOnly ==
    /\ \A x \in obs.swallowed : \E k \in Survivors : Holds(obs.holes[k], x)
    /\ obs.lost = "black_hole"
       => \E k \in Survivors : ShipCaptured(obs.holes[k], obs.pre.ship)

\* how far the motion step of the frame turned rocket k of the pool
Turned(k) == obs'.pre.rockets[k].rot - main.rockets[k].rot

\* one frame of a session, as C24 allows it
C24Step ==
    (game = "Playing" /\ obs'.path \in {"tick", "lost"})
    => \A k \in 1..Len(main.rockets) : Turned(k) \in -10..10

\* C24: a frame turns the heading of a rocket by at most 10 degrees,
\* clockwise or counter-clockwise.
C24TurnCapped == [][C24Step]_vars

RECURSIVE ReloadSteps(_, _)
\* how many reload upgrades take the reload time from to t
ReloadSteps(from, t) ==
    IF from <= t THEN 0 ELSE 1 + ReloadSteps(Div(from * 4, 5), t)

\* the number of upgrades a session in state s has applied, read from
\* what each effect of make_upgrades leaves behind (MainState::new starts
\* with no brakes, next_rockets 5, reload times 1 s and 0.5 s, no
\* production and no shield regeneration)
Applied(s) ==
    (IF s.has_brakes THEN 1 ELSE 0)
    + (s.next_rockets - 5) \div 5
    + ReloadSteps(1000000, s.rocket_reload_time)
    + ReloadSteps(500000, s.bullet_reload_time)
    + s.rocket_production_per_sec \div 300000
    + (IF s.shield_regeneration_per_sec = 0 THEN 0
       ELSE 1 + (s.shield_regeneration_per_sec - 1666) \div 8333)

\* the number of pending prompts
Pending(s) == IF s.level_up.some THEN 1 ELSE 0

\* every level above the first has its upgrade applied or its prompt open
LevelsAnswered(s) == Applied(s) + Pending(s) = s.level - 1

\* one frame of a session, as C25 allows it
C25Step ==
    /\ game = "Playing" => LevelsAnswered(main)
    /\ (game = "Playing" /\ game' = "Playing")
       => /\ main'.level - main.level \in {0, 1}
          /\ main'.level = main.level + 1
             => /\ obs'.path = "tick"
                /\ ~obs'.pre.level_up.some
                /\ main'.level_up.some
          /\ Applied(main') - Applied(main)
                = (IF main.level_up.some /\ obs'.confirmed THEN 1 ELSE 0)
          /\ LevelsAnswered(main')

\* C25: a frame raises the level by at most one, and only when no prompt
\* is pending, so no prompt is overwritten; in every state of a session
\* the upgrades applied so far plus the pending prompt (0 or 1) number
\* level - 1.
C25OnePromptPerLevel == [][C25Step]_vars

C25Witness ==
    /\ game = "Playing"
    /\ main.level = LateState.level + 1
    /\ Applied(main) = Applied(LateState) + 1
    /\ ~main.level_up.some
    /\ obs.confirmed

\* the upgrades whose effect never reports exhaustion
Inexhaustible == {"missiles", "production", "shields"}

\* C26: in every state of a session the pool holds at least 3 upgrades,
\* the three inexhaustible ones among them, both reload times stay above
\* 0.04 s, and a pending prompt offers exactly 3 distinct upgrades of the
\* pool.
C26PoolKeepsThree ==
    game = "Playing"
    => /\ Len(main.available_upgrades) >= 3
       /\ Inexhaustible \subseteq Range(main.available_upgrades)
       /\ main.rocket_reload_time > 40000
       /\ main.bullet_reload_time > 40000
       /\ main.level_up.some
          => /\ Len(main.level_up.upgrade_choices) = 3
             /\ Cardinality(Range(main.level_up.upgrade_choices)) = 3
             /\ Range(main.level_up.upgrade_choices)
                   \subseteq Range(main.available_upgrades)

C26Witness ==
    /\ game = "Playing"
    /\ main.available_upgrades = <<"missiles", "production", "shields">>
    /\ main.rocket_reload_time <= 50000
    /\ main.bullet_reload_time <= 50000
    /\ main.has_brakes
    /\ main.level_up.some

\* the black holes the pairwise pass of the last frame merged
Parents == {k \in 1..Len(obs.holes) : obs.holes[k].collided}

\* C27: every merged hole has two parents of its own, so the holes a frame
\* merges are replaced by fewer holes and the merge pass never leaves more
\* live holes than it found.
C27MergeShrinks ==
    /\ 2 * Len(obs.merged) <= Cardinality(Parents)
    /\ Parents # {} => Len(obs.merged) < Cardinality(Parents)
    /\ Len(obs.holes) - Cardinality(Parents) + Len(obs.merged)
          <= Len(obs.holes)

\* the shield units the collision pass of the frame spent
Spent == obs'.pre.shields - main'.shields

\* one frame of a session, as C28 allows it
C28Step ==
    /\ (game = "Playing" /\ obs'.path \in {"tick", "lost"})
       => obs'.pre.shields >= 0
    /\ (game = "Playing" /\ obs'.path = "tick")
       => /\ main'.shields >= 0
          /\ Spent \in {0, One}
          /\ Spent = One => ~main.colliding
          /\ obs'.drained <= 1

\* C28: the shield charge is never negative; the collision pass of a frame
\* spends at most one unit, and only when the colliding flag the frame
\* before left is not set; a run of consecutive simulated frames in which
\* an asteroid overlaps the ship spends at most one unit.
C28ShieldsHold == [][C28Step]_vars

=============================================================================
